---------------------------- MODULE Spec2Model ----------------------------
(***************************************************************************)
(* A model of the tinfo NES core: the NROM cartridge, the CPU bus with its *)
(* 2 KiB mirrored RAM, and the cycle-stepped 2A03 CPU.                     *)
(*                                                                         *)
(* Every call of the program (cartridge.read/write, bus.read/write,        *)
(* cpu.cycle) is one action.  A call ends in one of three ways, recorded   *)
(* in ret.kind: "Ok", "Err" (an Err(..) value returned to the caller) or   *)
(* "Panic" (todo!(), unimplemented!(), an index out of bounds, or an       *)
(* arithmetic overflow in a build with overflow checks): a panic unwinds   *)
(* the process and no further call is made.                                *)
(***************************************************************************)
EXTENDS Integers, Naturals, Sequences, FiniteSets, TLC

VARIABLES
    cartridge,                  \* Bus::cartridge (Box<dyn Cartridge>)
    cpu_ram,                    \* Bus::cpu_ram
    accumulator,                \* Cpu::accumulator
    register_x,                 \* Cpu::register_x
    register_y,                 \* Cpu::register_y
    status,                     \* Cpu::status (CpuStatusFlags bits)
    stack_pointer,              \* Cpu::stack_pointer
    program_counter,            \* Cpu::program_counter
    current_instruction,        \* Cpu::current_instruction
    current_instruction_cycle,  \* Cpu::current_instruction_cycle
    cache,                      \* Cpu::cache
    cpu_cycles,                 \* Cpu::cpu_cycles
    overflow_checks,            \* the build: TRUE when arithmetic overflow panics
    ret,                        \* the last call and what it returned
    last_snapshot               \* the snapshot of the last opcode fetch, as the caller keeps it

vars == <<cartridge, cpu_ram, accumulator, register_x, register_y, status,
          stack_pointer, program_counter, current_instruction,
          current_instruction_cycle, cache, cpu_cycles, overflow_checks,
          ret, last_snapshot>>

cpuVars == <<accumulator, register_x, register_y, status, stack_pointer,
             program_counter, current_instruction, current_instruction_cycle,
             cache, cpu_cycles, last_snapshot>>

---------------------------------------------------------------------------
(* Bounds of the model.                                                    *)

\* Number of evenly spread addresses probed by the cartridge and bus calls.
NumProbes == 16

\* Largest PRG ROM size byte of an iNES image, in units of 16 KiB.
MaxPrgUnits == 2

---------------------------------------------------------------------------
(* Machine integers.                                                       *)

U16Max == 65535

BYTES_ON_A_KIBIBYTE == 1024

Wrap8(n) == n % 256

Wrap16(n) == n % 65536

\* a & b and a | b, bit by bit
RECURSIVE BitAnd(_, _)
BitAnd(a, b) ==
    IF a = 0 \/ b = 0 THEN 0
    ELSE (a % 2) * (b % 2) + 2 * BitAnd(a \div 2, b \div 2)

RECURSIVE BitOr(_, _)
BitOr(a, b) ==
    IF a = 0 THEN b
    ELSE IF b = 0 THEN a
    ELSE (IF a % 2 = 1 \/ b % 2 = 1 THEN 1 ELSE 0) + 2 * BitOr(a \div 2, b \div 2)

\* a << n and a >> n on a u16
ShiftLeft16(a, n) == Wrap16(a * 2 ^ n)

ShiftRight(a, n) == a \div 2 ^ n

\* Mutant: the upper byte is shifted by 4 bits.
BuildAddressShortShift(lower_byte, upper_byte) ==
    BitOr(lower_byte, ShiftLeft16(upper_byte, 4))

\* (lower_byte as u16) | ((upper_byte as u16) << 8)
build_address(lower_byte, upper_byte) == BitOr(lower_byte, ShiftLeft16(upper_byte, 8))

\* (self & 0x00FF) as u8
lower_byte(a) == Wrap8(BitAnd(a, 255))

\* ((self & 0xFF00) >> 8) as u8
upper_byte(a) == Wrap8(ShiftRight(BitAnd(a, 65280), 8))

---------------------------------------------------------------------------
(* Results of calls.                                                       *)

Ok(v) == [kind |-> "Ok", val |-> v, err |-> ""]

Err(e) == [kind |-> "Err", val |-> -1, err |-> e]

Panic(e) == [kind |-> "Panic", val |-> -1, err |-> e]

\* Option<CpuSnapshot>::None
NoSnapshot == [present |-> FALSE]

\* map_err: an error wrapped in a variant of the caller's error type.
MapErr(res, variant) ==
    IF res.kind = "Err" THEN Err(variant \o "(" \o res.err \o ")") ELSE res

NoInstructionData == [arg_1 |-> -1, arg_2 |-> -1, idle_cycles |-> 0, assembly |-> ""]

\* What a call left behind: the operation, its arguments, its result, the
\* calls it made on the cartridge, and (cpu.cycle) the snapshot it returned.
Ret(op, addr, value, res, calls, snap) ==
    [op |-> op, addr |-> addr, value |-> value, kind |-> res.kind,
     val |-> res.val, err |-> res.err, calls |-> calls, snapshot |-> snap]

NoRet == Ret("none", -1, -1, Ok(-1), <<>>, NoSnapshot)

---------------------------------------------------------------------------
(* rom.rs, rom/ines.rs: the PRG ROM behind a cartridge.                    *)
(*                                                                         *)
(* An InesFile's prg_rom vector is kept in a compact form: the bytes of    *)
(* prog at index at, and elsewhere the fill byte of the index's 16 KiB     *)
(* bank.                                                                   *)

MockRom == [kind |-> "MockRom", prg_rom_size |-> 0, fill |-> <<>>, at |-> 0, prog |-> <<>>]

InesFile(fill, at, prog) ==
    [kind |-> "InesFile", prg_rom_size |-> Len(fill) * 16 * BYTES_ON_A_KIBIBYTE,
     fill |-> fill, at |-> at, prog |-> prog]

\* prg_rom[index], for index < prg_rom.len()
PrgRomByte(rom, index) ==
    IF index >= rom.at /\ index < rom.at + Len(rom.prog)
    THEN rom.prog[index - rom.at + 1]
    ELSE rom.fill[(index \div (16 * BYTES_ON_A_KIBIBYTE)) + 1]

\* Rom::read_prg_data: the vector index of InesFile panics past the end; the
\* tests' MockRom answers 1 from index 1024 on and 0 below.
read_prg_data(rom, index) ==
    IF rom.kind = "MockRom"
    THEN (IF index >= BYTES_ON_A_KIBIBYTE THEN Ok(1) ELSE Ok(0))
    ELSE IF index < rom.prg_rom_size
         THEN Ok(PrgRomByte(rom, index))
         ELSE Panic("index out of bounds")

---------------------------------------------------------------------------
(* cartridge/nrom.rs                                                       *)

NromPrgStart == 32768

\* Nrom::new
NromNew(has_32_kibibytes_prg_rom_capacity, rom) ==
    [kind |-> "Nrom",
     has_32_kibibytes_prg_rom_capacity |-> has_32_kibibytes_prg_rom_capacity,
     rom |-> rom]

\* Mutant: the start of the window is not taken off the address.
NromIndexUnshifted(cart, address) ==
    IF cart.has_32_kibibytes_prg_rom_capacity
    THEN address
    ELSE address % (16 * BYTES_ON_A_KIBIBYTE)

\* Mutant: no modulo for a 16 KiB cartridge.
NromIndexNeverMirrored(cart, address) == address - 32768

\* Mutant: the modulo whatever the capacity.
NromIndexAlwaysMirrored(cart, address) == (address - 32768) % 16384

\* The ROM index Nrom::read hands to read_prg_data for an address >= 0x8000.
NromIndex(cart, address) ==
    IF cart.has_32_kibibytes_prg_rom_capacity
    THEN address - NromPrgStart
    ELSE (address - NromPrgStart) % (16 * BYTES_ON_A_KIBIBYTE)

\* Mutant: the window starts one address late.
NromReadOffByOne(cart, address) ==
    IF address <= 32768
    THEN Err("CartridgeError::CannotRead")
    ELSE read_prg_data(cart.rom, address - 32768)

\* <Nrom as Cartridge>::read
NromRead(cart, address) ==
    IF address < NromPrgStart
    THEN Err("CartridgeError::CannotRead")
    ELSE read_prg_data(cart.rom, NromIndex(cart, address))

\* Mutant: the write goes through to the first byte of the ROM.
NromWriteThrough(cart, address, value) ==
    [cartridge |-> [cart EXCEPT !.rom.at = 0, !.rom.prog = <<value>>], res |-> Ok(-1)]

\* <Nrom as Cartridge>::write: the cartridge after the call and the result.
NromWrite(cart, address, value) ==
    [cartridge |-> cart, res |-> Err("CartridgeError::CannotWrite")]

\* dyn Cartridge dispatch
CartridgeRead(cart, address) == NromRead(cart, address)

CartridgeWrite(cart, address, value) == NromWrite(cart, address, value)

---------------------------------------------------------------------------
(* bus.rs                                                                  *)

CPU_RAM_WITH_MIRRORING_START_ADDRESS == 0

CPU_RAM_WITH_MIRRORING_END_ADDRESS == 8191

PPU_REGISTERS_WITH_MIRRORING_START_ADDRESS == 8192

PPU_REGISTERS_WITH_MIRRORING_END_ADDRESS == 16383

APU_AND_IO_REGISTERS_START_ADDRESS == 16384

APU_AND_IO_REGISTERS_END_ADDRESS == 16407

APU_AND_IO_CPU_TEST_MODE_REGISTERS_START_ADDRESS == 16408

APU_AND_IO_CPU_TEST_MODE_REGISTERS_END_ADDRESS == 16415

CARTRIDGE_CONTROLLED_REGION_START_ADDRESS == 16416

CARTRIDGE_CONTROLLED_REGION_END_ADDRESS == 65535

CpuRamSize == 2 * BYTES_ON_A_KIBIBYTE

\* Mutant: the mask keeps 12 bits.
MaskAddressTwelveBits(address) == address % 4096

\* address & 0b00000111_11111111
MaskAddress(address) == address % 2048

\* The array cpu_ram is kept in a compact form: the cells written so far
\* (written), and for the others the contents Bus::new drew: the bytes of
\* prog at index at, and fill elsewhere.
RamImage(fill, at, prog) == [fill |-> fill, at |-> at, prog |-> prog, written |-> <<>>]

\* self.cpu_ram[index]
RamByte(ram, index) ==
    IF index \in DOMAIN ram.written THEN ram.written[index]
    ELSE IF index >= ram.at /\ index < ram.at + Len(ram.prog)
    THEN ram.prog[index - ram.at + 1]
    ELSE ram.fill

\* Mutant: the value lands in the cell addressed and in the one below it.
RamStoreAndNeighbour(ram, index, value) ==
    [ram EXCEPT !.written = [i \in (DOMAIN @) \cup {index, (index + 2047) % 2048} |->
                               IF i \in {index, (index + 2047) % 2048} THEN value ELSE @[i]]]

\* Mutant: the value lands in the cell after the one addressed.
RamStoreNextCell(ram, index, value) ==
    [ram EXCEPT !.written = [i \in (DOMAIN @) \cup {(index + 1) % 2048} |->
                               IF i = (index + 1) % 2048 THEN value ELSE @[i]]]

\* self.cpu_ram[index] = value
RamStore(ram, index, value) ==
    [ram EXCEPT !.written = [i \in (DOMAIN @) \cup {index} |->
                               IF i = index THEN value ELSE @[i]]]

\* The arm of the match in Bus::read and Bus::write that takes the address:
\* the first arm whose range holds it.
BusRegion(address) ==
    CASE address >= CPU_RAM_WITH_MIRRORING_START_ADDRESS
         /\ address <= CPU_RAM_WITH_MIRRORING_END_ADDRESS -> "CpuRam"
      [] address >= PPU_REGISTERS_WITH_MIRRORING_START_ADDRESS
         /\ address <= PPU_REGISTERS_WITH_MIRRORING_END_ADDRESS -> "PpuRegisters"
      [] address >= APU_AND_IO_REGISTERS_START_ADDRESS
         /\ address <= APU_AND_IO_REGISTERS_END_ADDRESS -> "ApuAndIo"
      [] address >= APU_AND_IO_CPU_TEST_MODE_REGISTERS_START_ADDRESS
         /\ address <= APU_AND_IO_CPU_TEST_MODE_REGISTERS_END_ADDRESS -> "ApuAndIoTestMode"
      [] address >= CARTRIDGE_CONTROLLED_REGION_START_ADDRESS
         /\ address <= CARTRIDGE_CONTROLLED_REGION_END_ADDRESS -> "Cartridge"

\* Mutant: the address is made relative to the cartridge region.
BusCartridgeAddressRelative(address) == address - 16416

\* The address Bus::read and Bus::write hand to the cartridge.
BusCartridgeAddress(address) == address

\* Mutant: the error of the cartridge is passed on as it is, not wrapped.
BusReadUnwrapped(ram, cart, address) ==
    LET region == BusRegion(address) IN
    IF region = "CpuRam"
    THEN [res |-> Ok(RamByte(ram, MaskAddress(address))), calls |-> <<>>]
    ELSE IF region = "Cartridge"
    THEN [res |-> CartridgeRead(cart, BusCartridgeAddress(address)),
          calls |-> <<[op |-> "read", addr |-> BusCartridgeAddress(address), value |-> -1]>>]
    ELSE [res |-> Panic("not yet implemented"), calls |-> <<>>]

\* Bus::read: the result and the calls made on the cartridge.
BusRead(ram, cart, address) ==
    LET region == BusRegion(address) IN
    IF region = "CpuRam"
    THEN [res |-> Ok(RamByte(ram, MaskAddress(address))), calls |-> <<>>]
    ELSE IF region = "Cartridge"
    THEN [res |-> MapErr(CartridgeRead(cart, BusCartridgeAddress(address)),
                         "BusError::CartridgeError"),
          calls |-> <<[op |-> "read", addr |-> BusCartridgeAddress(address), value |-> -1]>>]
    ELSE [res |-> Panic("not yet implemented"), calls |-> <<>>]

\* Bus::write: the RAM and the cartridge after the call, the result and the
\* calls made on the cartridge.
BusWrite(ram, cart, address, value) ==
    LET region == BusRegion(address) IN
    IF region = "CpuRam"
    THEN [cpu_ram |-> RamStore(ram, MaskAddress(address), value),
          cartridge |-> cart, res |-> Ok(-1), calls |-> <<>>]
    ELSE IF region = "Cartridge"
    THEN LET w == CartridgeWrite(cart, BusCartridgeAddress(address), value) IN
         [cpu_ram |-> ram, cartridge |-> w.cartridge,
          res |-> MapErr(w.res, "BusError::CartridgeError"),
          calls |-> <<[op |-> "write", addr |-> BusCartridgeAddress(address), value |-> value]>>]
    ELSE [cpu_ram |-> ram, cartridge |-> cart,
          res |-> Panic("not yet implemented"), calls |-> <<>>]

---------------------------------------------------------------------------
(* Inputs of the cartridge-level and bus-level calls.                      *)

\* Two RAM cells (the first and the last) at their four mirrored addresses.
RamProbeAddresses == {c + CpuRamSize * k : c \in {0, 2047}, k \in 0..3}

\* The ends of the regions of the bus and of the NROM banks.
EdgeAddresses ==
    {8191, 8192, 16383, 16384, 16407, 16408, 16415, 16416,
     32767, 32768, 33791, 33792, 49151, 49152, 65535}

\* NumProbes addresses spread over the cartridge region.
SpreadAddresses ==
    {CARTRIDGE_CONTROLLED_REGION_START_ADDRESS
       + (k * (65536 - CARTRIDGE_CONTROLLED_REGION_START_ADDRESS)) \div NumProbes :
     k \in 0..(NumProbes - 1)}

ProbeAddresses == RamProbeAddresses \cup EdgeAddresses \cup SpreadAddresses

ProbeValues == {0, 255}

BankFills(units) ==
    {[b \in 1..units |-> 234], [b \in 1..units |-> b - 1]}

\* ROMs read through a cartridge: the tests' MockRom and iNES images of
\* 0..MaxPrgUnits banks, without and with a few bytes across the end of the
\* first bank.
ProbeRoms ==
    {MockRom}
    \cup {InesFile(f, 0, <<>>) : f \in UNION {BankFills(u) : u \in 0..MaxPrgUnits}}
    \cup {InesFile(f, 16382, <<76, 51, 85>>) : f \in UNION {BankFills(u) : u \in 2..MaxPrgUnits}}

ProbeCartridges == {NromNew(c, r) : c \in BOOLEAN, r \in ProbeRoms}

ResetCpu ==
    /\ accumulator = 0
    /\ register_x = 0
    /\ register_y = 0
    /\ status = 24
    /\ stack_pointer = 253
    /\ program_counter = 32768
    /\ current_instruction = "Stub"
    /\ current_instruction_cycle = 1
    /\ cache = <<>>
    /\ cpu_cycles = 6
    /\ last_snapshot = NoSnapshot

---------------------------------------------------------------------------
(* SpecNrom: calls on an NROM cartridge on its own (the tests of nrom.rs). *)

InitNrom ==
    /\ cartridge \in ProbeCartridges
    /\ cpu_ram = RamImage(0, 0, <<>>)
    /\ ResetCpu
    /\ overflow_checks \in {TRUE}
    /\ ret = NoRet

\* cartridge.read(address)
CartRead(address) ==
    /\ ret.kind # "Panic"
    /\ ret' = Ret("cart_read", address, -1, CartridgeRead(cartridge, address), <<>>, NoSnapshot)
    /\ UNCHANGED <<cartridge, cpu_ram, cpuVars, overflow_checks>>

\* cartridge.write(address, value)
CartWrite(address, value) ==
    /\ ret.kind # "Panic"
    /\ LET w == CartridgeWrite(cartridge, address, value) IN
       /\ cartridge' = w.cartridge
       /\ ret' = Ret("cart_write", address, value, w.res, <<>>, NoSnapshot)
    /\ UNCHANGED <<cpu_ram, cpuVars, overflow_checks>>

NextNrom ==
    \/ \E a \in ProbeAddresses : CartRead(a)
    \/ \E a \in ProbeAddresses, v \in ProbeValues : CartWrite(a, v)

SpecNrom == InitNrom /\ [][NextNrom]_vars

---------------------------------------------------------------------------
(* SpecParsed: calls on the cartridge InesFile::from_read builds.           *)

\* An iNES file: whether it starts with the magic bytes, the program-ROM
\* size byte of its header (in units of 16 KiB), and the program data that
\* follows the 16-byte header, in the compact form of InesFile.
InesImage(magic, prg_rom_size, fill, at, prog) ==
    [magic |-> magic, prg_rom_size |-> prg_rom_size, fill |-> fill, at |-> at, prog |-> prog]

\* InesFile::from_read: the cartridge, or the error of a file without the
\* magic bytes or with less data than its header announces.
from_read(file) ==
    IF ~file.magic THEN Err("InesFileError::MagicBytesMissing")
    ELSE IF Len(file.fill) < file.prg_rom_size THEN Err("InesFileError::ReadingRomFailed")
    ELSE Ok(NromNew(FALSE, InesFile(SubSeq(file.fill, 1, file.prg_rom_size), file.at,
                                    file.prog)))

\* Well-formed files of 1..MaxPrgUnits banks, without and with a few bytes
\* across the end of the first bank.
ParsedFiles ==
    {InesImage(TRUE, Len(f), f, 0, <<>>) : f \in UNION {BankFills(u) : u \in 1..MaxPrgUnits}}
    \cup {InesImage(TRUE, Len(f), f, 16382, <<76, 51, 85>>) :
            f \in UNION {BankFills(u) : u \in 2..MaxPrgUnits}}

InitParsed ==
    /\ \E file \in ParsedFiles :
          /\ from_read(file).kind = "Ok"
          /\ cartridge = from_read(file).val
    /\ cpu_ram = RamImage(0, 0, <<>>)
    /\ ResetCpu
    /\ overflow_checks \in {TRUE}
    /\ ret = NoRet

SpecParsed == InitParsed /\ [][NextNrom]_vars

---------------------------------------------------------------------------
(* SpecBus: calls on a bus that owns the RAM and an NROM cartridge.        *)

BusCartridges ==
    {NromNew(FALSE, InesFile(<<234>>, 0, <<76, 51, 85>>)),
     NromNew(TRUE, InesFile(<<0, 1>>, 16382, <<76, 51, 85>>))}

InitBus ==
    /\ cartridge \in BusCartridges
    /\ cpu_ram \in {RamImage(0, 0, <<>>), RamImage(234, 0, <<>>)}
    /\ ResetCpu
    /\ overflow_checks \in {TRUE}
    /\ ret = NoRet

\* bus.read(address)
BusReadCall(address) ==
    /\ ret.kind # "Panic"
    /\ LET r == BusRead(cpu_ram, cartridge, address) IN
       ret' = Ret("bus_read", address, -1, r.res, r.calls, NoSnapshot)
    /\ UNCHANGED <<cartridge, cpu_ram, cpuVars, overflow_checks>>

\* bus.write(address, value)
BusWriteCall(address, value) ==
    /\ ret.kind # "Panic"
    /\ LET w == BusWrite(cpu_ram, cartridge, address, value) IN
       /\ cpu_ram' = w.cpu_ram
       /\ cartridge' = w.cartridge
       /\ ret' = Ret("bus_write", address, value, w.res, w.calls, NoSnapshot)
    /\ UNCHANGED <<cpuVars, overflow_checks>>

NextBus ==
    \/ \E a \in ProbeAddresses : BusReadCall(a)
    \/ \E a \in ProbeAddresses, v \in ProbeValues : BusWriteCall(a, v)

SpecBus == InitBus /\ [][NextBus]_vars

---------------------------------------------------------------------------
(* Properties of the cartridge (SpecNrom).                                 *)

\* The ROM answers every index below n.
RomHolds(rom, n) == rom.kind = "MockRom" \/ rom.prg_rom_size >= n

\* The ROM is as large as the capacity the cartridge declares.
RomMatchesCapacity(cart) ==
    RomHolds(cart.rom, IF cart.has_32_kibibytes_prg_rom_capacity THEN 32768 ELSE 16384)

\* Offsets into one 16 KiB bank: those of the probed addresses.
ProbeOffsets == {a % 16384 : a \in ProbeAddresses}

\* The offsets and addresses a property is evaluated at: all of them before
\* the first call, the probed ones after each call.
CheckedOffsets == IF ret.op = "none" THEN 0..16383 ELSE ProbeOffsets

CheckedAddresses == IF ret.op = "none" THEN 0..65535 ELSE ProbeAddresses

\* C1: after bus.write(a, v) succeeds for a in 0x0000..0x1FFF, bus.read
\* returns v at a and at each of its mirrors (every address of the RAM
\* region equal to a modulo 2048), whatever reads and writes came before.
C1_RamMirroring ==
    (ret.op = "bus_write" /\ ret.kind = "Ok" /\ ret.addr >= 0 /\ ret.addr <= 8191)
    => \A k \in 0..3 :
         BusRead(cpu_ram, cartridge, (ret.addr % 2048) + 2048 * k).res = Ok(ret.value)

C1_Witness ==
    /\ ret.op = "bus_write" /\ ret.kind = "Ok"
    /\ ret.addr = 8191 /\ ret.value = 255
    /\ BusRead(cpu_ram, cartridge, 2047).res = Ok(255)
    /\ BusRead(cpu_ram, cartridge, 0).res = Ok(0)

\* C2: on an NROM cartridge of 16 KiB capacity (flag false) read(0x8000 + i)
\* and read(0xC000 + i) both succeed and return ROM[i], for every offset i of
\* a bank; so does the read the caller last made.
C2_NromBankMirroring ==
    (~cartridge.has_32_kibibytes_prg_rom_capacity /\ RomHolds(cartridge.rom, 16384))
    => /\ \A i \in CheckedOffsets :
            /\ CartridgeRead(cartridge, 32768 + i).kind = "Ok"
            /\ CartridgeRead(cartridge, 32768 + i) = read_prg_data(cartridge.rom, i)
            /\ CartridgeRead(cartridge, 49152 + i) = read_prg_data(cartridge.rom, i)
       /\ (ret.op = "cart_read" /\ ret.addr >= 32768)
            => /\ ret.kind = "Ok"
               /\ ret.val = read_prg_data(cartridge.rom, (ret.addr - 32768) % 16384).val

C2_Witness ==
    /\ ~cartridge.has_32_kibibytes_prg_rom_capacity
    /\ cartridge.rom.kind = "InesFile" /\ cartridge.rom.prg_rom_size = 16384
    /\ ret.op = "cart_read" /\ ret.addr = 65535 /\ ret.kind = "Ok"
    /\ ret.val = PrgRomByte(cartridge.rom, 16383)

\* C3: on an NROM cartridge of 32 KiB capacity (flag true) read(a) returns
\* ROM[a - 0x8000] for every a in 0x8000..0xFFFF, with no modulo: the reads
\* of 0x8000 + i and 0xC000 + i differ whenever ROM[i] and ROM[0x4000 + i] do.
C3_NromDirectIndexing ==
    (cartridge.has_32_kibibytes_prg_rom_capacity /\ RomHolds(cartridge.rom, 32768))
    => /\ \A a \in CheckedAddresses :
            a >= 32768 =>
              /\ CartridgeRead(cartridge, a).kind = "Ok"
              /\ CartridgeRead(cartridge, a) = read_prg_data(cartridge.rom, a - 32768)
       /\ \A i \in CheckedOffsets :
            (read_prg_data(cartridge.rom, i) # read_prg_data(cartridge.rom, 16384 + i))
            => CartridgeRead(cartridge, 32768 + i) # CartridgeRead(cartridge, 49152 + i)
       /\ (ret.op = "cart_read" /\ ret.addr >= 32768)
            => /\ ret.kind = "Ok"
               /\ ret.val = read_prg_data(cartridge.rom, ret.addr - 32768).val

C3_Witness ==
    /\ cartridge.has_32_kibibytes_prg_rom_capacity
    /\ cartridge.rom.kind = "InesFile" /\ cartridge.rom.prg_rom_size = 32768
    /\ ret.op = "cart_read" /\ ret.addr = 49152 /\ ret.kind = "Ok"
    /\ ret.val = PrgRomByte(cartridge.rom, 16384)
    /\ ret.val # CartridgeRead(cartridge, 32768).val

\* C4: cartridge.write(a, v) on an NROM cartridge returns the write
\* protection error for every address and value and both capacities, and
\* every read returns after the call what it returned before it.
C4_NromWriteProtection ==
    [][ret'.op = "cart_write"
       => /\ ret'.kind = "Err"
          /\ ret'.err = "CartridgeError::CannotWrite"
          /\ \A a \in ProbeAddresses :
               CartridgeRead(cartridge', a) = CartridgeRead(cartridge, a)]_vars

C4_Witness ==
    /\ ret.op = "cart_write" /\ ret.addr = 16416 /\ ret.value = 255
    /\ ret.kind = "Err"
    /\ cartridge.has_32_kibibytes_prg_rom_capacity
    /\ CartridgeRead(cartridge, 32768).kind = "Ok"

\* C5: cartridge.read(a) on an NROM cartridge returns the addressing error
\* for every a below 0x8000 and succeeds for every a in 0x8000..0xFFFF, for
\* both capacities (the ROM being as large as the capacity declared).
C5_NromReadWindow ==
    /\ \A a \in CheckedAddresses :
         /\ a < 32768 => CartridgeRead(cartridge, a) = Err("CartridgeError::CannotRead")
         /\ (a >= 32768 /\ RomMatchesCapacity(cartridge))
              => CartridgeRead(cartridge, a).kind = "Ok"
    /\ (ret.op = "cart_read" /\ ret.addr < 32768)
         => (ret.kind = "Err" /\ ret.err = "CartridgeError::CannotRead")
    /\ (ret.op = "cart_read" /\ ret.addr >= 32768 /\ RomMatchesCapacity(cartridge))
         => ret.kind = "Ok"

C5_Witness ==
    /\ ret.op = "cart_read" /\ ret.addr = 32767 /\ ret.kind = "Err"
    /\ RomMatchesCapacity(cartridge)
    /\ CartridgeRead(cartridge, 32768).kind = "Ok"

---------------------------------------------------------------------------
(* Properties of the bus (SpecBus).                                        *)

\* The regions as the claim lists them.
ClaimedRegions ==
    {<<"CpuRam", 0, 8191>>, <<"PpuRegisters", 8192, 16383>>,
     <<"ApuAndIo", 16384, 16407>>, <<"ApuAndIoTestMode", 16408, 16415>>,
     <<"Cartridge", 16416, 65535>>}

ClaimedRegionsOf(a) == {r \in ClaimedRegions : a >= r[2] /\ a <= r[3]}

\* C6: every address lies in exactly one of the five regions, which is the
\* one the bus decodes it to; a bus read or write calls the cartridge
\* exactly when the address is in 0x4020..0xFFFF, once, with the address
\* (and the value) unchanged, and never with an address below 0x4020.
C6_BusAddressDecode ==
    /\ \A a \in CheckedAddresses :
         /\ Cardinality(ClaimedRegionsOf(a)) = 1
         /\ \A r \in ClaimedRegionsOf(a) : r[1] = BusRegion(a)
    /\ (ret.op \in {"bus_read", "bus_write"})
         => /\ ret.addr >= 16416
               => ret.calls = <<[op |-> IF ret.op = "bus_read" THEN "read" ELSE "write",
                                 addr |-> ret.addr, value |-> ret.value]>>
            /\ ret.addr < 16416 => ret.calls = <<>>
            /\ \A i \in 1..Len(ret.calls) : ret.calls[i].addr >= 16416

C6_Witness ==
    /\ ret.op = "bus_write" /\ ret.addr = 16416 /\ ret.value = 255
    /\ Len(ret.calls) = 1 /\ ret.calls[1].addr = 16416

\* C7: bus.read(a) and bus.write(a, v) for a in 0x2000..0x401F return a
\* typed error or a stub value to the caller, change no RAM cell and do not
\* call the cartridge.
C7_UnimplementedRegions ==
    [][(ret'.op \in {"bus_read", "bus_write"} /\ ret'.addr >= 8192 /\ ret'.addr <= 16415)
       => /\ ret'.kind \in {"Ok", "Err"}
          /\ cpu_ram' = cpu_ram
          /\ ret'.calls = <<>>]_vars

\* The call C7 is refuted by: a read of the first PPU register address ends in
\* the todo!() of its match arm.
C7_Panics ==
    /\ ret.op = "bus_read" /\ ret.addr = 8192
    /\ ret.kind = "Panic" /\ ret.err = "not yet implemented"

---------------------------------------------------------------------------
(* cpu.rs: the status flags, the snapshot, small helpers.                  *)

Carry == 1

Zero == 2

InterruptsDisabled == 4

Decimal == 8

B == 16

Stub == 32

Overflow == 64

Negative == 128

STACK_ADDRESS == 256

\* CpuStatusFlags::contains, |= and -= for a single flag
contains(flags, flag) == (flags \div flag) % 2 = 1

insert(flags, flag) == IF contains(flags, flag) THEN flags ELSE flags + flag

remove(flags, flag) == IF contains(flags, flag) THEN flags - flag ELSE flags

\* value as i8
AsI8(value) == IF value >= 128 THEN value - 256 ELSE value

\* An integer overflow panics in a build with overflow checks and wraps in
\* one without.
Overflows16(n, checks) == checks /\ (n > U16Max \/ n < 0)

Overflows8(n, checks) == checks /\ (n > 255 \/ n < 0)

HexDigit(d) ==
    <<"0", "1", "2", "3", "4", "5", "6", "7", "8", "9", "A", "B", "C", "D", "E", "F">>[d + 1]

RECURSIVE HexDigits(_, _)
HexDigits(n, width) ==
    IF width = 0 THEN "" ELSE HexDigits(n \div 16, width - 1) \o HexDigit(n % 16)

RECURSIVE HexLen(_)
HexLen(n) == IF n < 16 THEN 1 ELSE 1 + HexLen(n \div 16)

\* format!("{n:0wX}"): upper-case hexadecimal, zero-padded to at least w digits
FormatHex(n, minWidth) ==
    HexDigits(n, IF HexLen(n) > minWidth THEN HexLen(n) ELSE minWidth)

\* The Cpu as a record of its fields (those of its Bus included).
CpuRecord ==
    [accumulator |-> accumulator, register_x |-> register_x, register_y |-> register_y,
     status |-> status, stack_pointer |-> stack_pointer,
     program_counter |-> program_counter, current_instruction |-> current_instruction,
     current_instruction_cycle |-> current_instruction_cycle, cache |-> cache,
     cpu_cycles |-> cpu_cycles, cpu_ram |-> cpu_ram, cartridge |-> cartridge]

\* self.bus.read(address)
CpuBusRead(c, address) == BusRead(c.cpu_ram, c.cartridge, address).res

\* Cpu::read_program_counter
read_program_counter(c) == CpuBusRead(c, c.program_counter)

\* Mutant: the snapshot is taken after the program counter moved.
CpuSnapshotNewLate(c) ==
    LET opcode == read_program_counter(c) IN
    IF opcode.kind # "Ok" THEN [res |-> opcode, snapshot |-> NoSnapshot]
    ELSE [res |-> Ok(-1),
          snapshot |-> [present |-> TRUE, accumulator |-> c.accumulator,
                        register_x |-> c.register_x, register_y |-> c.register_y,
                        status |-> c.status, stack_pointer |-> c.stack_pointer,
                        program_counter |-> Wrap16(c.program_counter + 1),
                        opcode |-> opcode.val,
                        instruction_data |-> NoInstructionData,
                        cpy_cycles |-> c.cpu_cycles]]

\* CpuSnapshot::new
CpuSnapshotNew(c) ==
    LET opcode == read_program_counter(c) IN
    IF opcode.kind # "Ok" THEN [res |-> opcode, snapshot |-> NoSnapshot]
    ELSE [res |-> Ok(-1),
          snapshot |-> [present |-> TRUE, accumulator |-> c.accumulator,
                        register_x |-> c.register_x, register_y |-> c.register_y,
                        status |-> c.status, stack_pointer |-> c.stack_pointer,
                        program_counter |-> c.program_counter,
                        opcode |-> opcode.val,
                        instruction_data |-> NoInstructionData,
                        cpy_cycles |-> c.cpu_cycles]]

\* The opcodes Cpu::dispatch_opcode maps, with their instructions.
OpcodeTable ==
    (76 :> "JumpAbsolute") @@ (162 :> "LoadXRegisterImmediate")
    @@ (134 :> "StoreXRegisterZeroPage") @@ (32 :> "JumpToSubroutineAbsolute")
    @@ (234 :> "NoOperationImplied") @@ (56 :> "SetCarryFlagImplied")
    @@ (176 :> "BranchIfCarrySetRelative") @@ (24 :> "ClearCarryFlagImplied")
    @@ (144 :> "BranchIfCarryClearRelative") @@ (240 :> "BranchIfEqual")
    @@ (208 :> "BranchIfNotEqual") @@ (112 :> "BranchIfOverflowSet")
    @@ (80 :> "BranchIfOverflowClear") @@ (48 :> "BranchIfMinus")
    @@ (16 :> "BranchIfPositive")

\* Mutant: an unmapped opcode is run as a NOP.
DispatchOpcodeSkipsUnmapped(opcode) ==
    IF opcode \in DOMAIN OpcodeTable
    THEN Ok(OpcodeTable[opcode])
    ELSE Ok("NoOperationImplied")

\* Cpu::dispatch_opcode: any other byte is unimplemented!().
dispatch_opcode(opcode) ==
    IF opcode \in DOMAIN OpcodeTable
    THEN Ok(OpcodeTable[opcode])
    ELSE Panic("not implemented: the opcode is not implemented yet")

\* The flag and the negation Cpu::cycle and Cpu::dispatch_instruction pass
\* to branch_cycles and branch_instruction.
BranchTable ==
    [BranchIfCarrySetRelative |-> <<Carry, FALSE>>,
     BranchIfCarryClearRelative |-> <<Carry, TRUE>>,
     BranchIfEqual |-> <<Zero, FALSE>>,
     BranchIfNotEqual |-> <<Zero, TRUE>>,
     BranchIfOverflowSet |-> <<Overflow, FALSE>>,
     BranchIfOverflowClear |-> <<Overflow, TRUE>>,
     BranchIfMinus |-> <<Negative, FALSE>>,
     BranchIfPositive |-> <<Negative, TRUE>>]

IsBranch(instruction) == instruction \in DOMAIN BranchTable

\* (contains_status_flag && !not) || (!contains_status_flag && not)
BranchTaken(flags, status_flag, not) ==
    (contains(flags, status_flag) /\ ~not) \/ (~contains(flags, status_flag) /\ not)

\* Mutant: Zero and Negative are set without clearing one another.
SetSignednessKeepsOther(c, value) ==
    IF AsI8(value) > 0
    THEN [c EXCEPT !.status = remove(remove(@, Negative), Zero)]
    ELSE IF AsI8(value) = 0
    THEN [c EXCEPT !.status = insert(@, Zero)]
    ELSE [c EXCEPT !.status = insert(@, Negative)]

\* Mutant: a flag whose condition does not hold is left as it was.
SetSignednessStale(c, value) ==
    IF AsI8(value) > 0 THEN c
    ELSE IF AsI8(value) = 0 THEN [c EXCEPT !.status = insert(@, Zero)]
    ELSE [c EXCEPT !.status = insert(@, Negative)]

\* Cpu::set_signedness
set_signedness(c, value) ==
    IF AsI8(value) > 0
    THEN [c EXCEPT !.status = remove(remove(@, Negative), Zero)]
    ELSE IF AsI8(value) = 0
    THEN [c EXCEPT !.status = remove(insert(@, Zero), Negative)]
    ELSE [c EXCEPT !.status = remove(insert(@, Negative), Zero)]

\* Mutant: the stack grows upwards.
StackPushAscending(c, value, checks) ==
    LET w == BusWrite(c.cpu_ram, c.cartridge, STACK_ADDRESS + c.stack_pointer, value)
    IN  [c |-> [c EXCEPT !.cpu_ram = w.cpu_ram, !.stack_pointer = Wrap8(@ + 1)],
         res |-> w.res]

\* Cpu::stack_push: the Cpu after the call and the result.
stack_push(c, value, checks) ==
    LET w == BusWrite(c.cpu_ram, c.cartridge, STACK_ADDRESS + c.stack_pointer, value)
        c1 == [c EXCEPT !.cpu_ram = w.cpu_ram, !.cartridge = w.cartridge]
    IN  IF w.res.kind # "Ok" THEN [c |-> c1, res |-> w.res]
        ELSE IF Overflows8(c.stack_pointer - 1, checks)
        THEN [c |-> c1, res |-> Panic("attempt to subtract with overflow")]
        ELSE [c |-> [c1 EXCEPT !.stack_pointer = Wrap8(c.stack_pointer - 1 + 256)],
              res |-> Ok(-1)]

---------------------------------------------------------------------------
(* cpu/*.rs: the InstructionData of each instruction, read at the fetch.   *)

InstructionData(arg_1, arg_2, assembly, idle_cycles) ==
    [arg_1 |-> arg_1, arg_2 |-> arg_2, idle_cycles |-> idle_cycles, assembly |-> assembly]

\* self.bus.read(self.program_counter + offset)
ReadOperand(c, offset, checks) ==
    IF Overflows16(c.program_counter + offset, checks)
    THEN Panic("attempt to add with overflow")
    ELSE CpuBusRead(c, Wrap16(c.program_counter + offset))

NoData(res) == [res |-> res, data |-> NoInstructionData]

BranchPrefix(status_flag, not) ==
    IF not
    THEN CASE status_flag = Carry -> "BCC" [] status_flag = Zero -> "BNE"
           [] status_flag = Overflow -> "BVC" [] status_flag = Negative -> "BPL"
    ELSE CASE status_flag = Carry -> "BCS" [] status_flag = Zero -> "BEQ"
           [] status_flag = Overflow -> "BVS" [] status_flag = Negative -> "BMI"

\* Cpu::branch_instruction
branch_instruction(c, status_flag, not, checks) ==
    LET arg_1 == ReadOperand(c, 1, checks) IN
    IF arg_1.kind # "Ok" THEN NoData(arg_1)
    ELSE IF Overflows16(c.program_counter + 2 + arg_1.val, checks)
    THEN NoData(Panic("attempt to add with overflow"))
    ELSE
    LET new_program_counter == Wrap16(c.program_counter + 2 + arg_1.val)
        idle_cycles ==
            IF BranchTaken(c.status, status_flag, not)
            THEN (IF upper_byte(c.program_counter) # upper_byte(new_program_counter)
                  THEN 3 ELSE 2)
            ELSE 1
    IN  [res |-> Ok(-1),
         data |-> InstructionData(arg_1.val, -1,
                    BranchPrefix(status_flag, not) \o " $" \o FormatHex(new_program_counter, 4),
                    idle_cycles)]

\* Mutant: the snapshot reports the two operand bytes in the other order.
JsrInstructionArgsSwapped(c, checks) ==
    LET arg_1 == ReadOperand(c, 1, checks) IN
    IF arg_1.kind # "Ok" THEN NoData(arg_1)
    ELSE
    LET arg_2 == ReadOperand(c, 2, checks) IN
    IF arg_2.kind # "Ok" THEN NoData(arg_2)
    ELSE [res |-> Ok(-1),
          data |-> InstructionData(arg_2.val, arg_1.val,
                     "JSR $" \o FormatHex(build_address(arg_1.val, arg_2.val), 2), 5)]

\* Cpu::jump_to_subroutine_absolute_instruction
jump_to_subroutine_absolute_instruction(c, checks) ==
    LET arg_1 == ReadOperand(c, 1, checks) IN
    IF arg_1.kind # "Ok" THEN NoData(arg_1)
    ELSE
    LET arg_2 == ReadOperand(c, 2, checks) IN
    IF arg_2.kind # "Ok" THEN NoData(arg_2)
    ELSE [res |-> Ok(-1),
          data |-> InstructionData(arg_1.val, arg_2.val,
                     "JSR $" \o FormatHex(build_address(arg_1.val, arg_2.val), 2), 5)]

\* Cpu::jump_absolute_instruction
jump_absolute_instruction(c, checks) ==
    LET arg_1 == ReadOperand(c, 1, checks) IN
    IF arg_1.kind # "Ok" THEN NoData(arg_1)
    ELSE
    LET arg_2 == ReadOperand(c, 2, checks) IN
    IF arg_2.kind # "Ok" THEN NoData(arg_2)
    ELSE [res |-> Ok(-1),
          data |-> InstructionData(arg_1.val, arg_2.val,
                     "JMP $" \o FormatHex(build_address(arg_1.val, arg_2.val), 4), 2)]

\* Cpu::load_x_register_immediate_instruction
load_x_register_immediate_instruction(c, checks) ==
    LET arg_1 == ReadOperand(c, 1, checks) IN
    IF arg_1.kind # "Ok" THEN NoData(arg_1)
    ELSE [res |-> Ok(-1),
          data |-> InstructionData(arg_1.val, -1, "LDX #$" \o FormatHex(arg_1.val, 2), 1)]

\* Cpu::store_x_register_zero_page_instruction
store_x_register_zero_page_instruction(c, checks) ==
    LET arg_1 == ReadOperand(c, 1, checks) IN
    IF arg_1.kind # "Ok" THEN NoData(arg_1)
    ELSE [res |-> Ok(-1),
          data |-> InstructionData(arg_1.val, -1,
                     "STX $" \o FormatHex(arg_1.val, 2) \o " = " \o FormatHex(c.register_x, 1),
                     2)]

\* Cpu::no_operation_implied_instruction
no_operation_implied_instruction(c) ==
    [res |-> Ok(-1), data |-> InstructionData(-1, -1, "NOP", 1)]

\* Cpu::set_carry_flag_implied_instruction
set_carry_flag_implied_instruction(c) ==
    [res |-> Ok(-1), data |-> InstructionData(-1, -1, "SEC", 2)]

\* Cpu::clear_carry_flag_implied_instruction
clear_carry_flag_implied_instruction(c) ==
    [res |-> Ok(-1), data |-> InstructionData(-1, -1, "CLC", 2)]

\* Cpu::dispatch_instruction
dispatch_instruction(c, checks) ==
    LET i == c.current_instruction IN
    CASE i = "JumpAbsolute" -> jump_absolute_instruction(c, checks)
      [] i = "LoadXRegisterImmediate" -> load_x_register_immediate_instruction(c, checks)
      [] i = "StoreXRegisterZeroPage" -> store_x_register_zero_page_instruction(c, checks)
      [] i = "JumpToSubroutineAbsolute" -> jump_to_subroutine_absolute_instruction(c, checks)
      [] i = "NoOperationImplied" -> no_operation_implied_instruction(c)
      [] i = "SetCarryFlagImplied" -> set_carry_flag_implied_instruction(c)
      [] i = "ClearCarryFlagImplied" -> clear_carry_flag_implied_instruction(c)
      [] IsBranch(i) -> branch_instruction(c, BranchTable[i][1], BranchTable[i][2], checks)
      [] i = "Stub" -> [res |-> Ok(-1), data |-> InstructionData(-1, -1, "INVALID STUB", 0)]

---------------------------------------------------------------------------
(* cpu/*.rs: the cycles of each instruction.  A handler gives the Cpu      *)
(* after the call, the result, and whether the instruction has ended.      *)

Step(c, res, fin) == [c |-> c, res |-> res, fin |-> fin]

\* A bus error leaves the handler through `?` as a CycleError::BusError.
Fail(c, res) == Step(c, MapErr(res, "CycleError::BusError"), FALSE)

OutOfBounds(c) == Step(c, Err("CycleError::InstructionCycleOutOfBounds"), FALSE)

OverflowPanic(c) == Step(c, Panic("attempt to add with overflow"), FALSE)

\* cpu.cache.push(cpu.read_program_counter()?); cpu.program_counter += 1;
FetchToCache(c, checks) ==
    LET r == read_program_counter(c) IN
    IF r.kind # "Ok" THEN Fail(c, r)
    ELSE LET c1 == [c EXCEPT !.cache = Append(@, r.val)] IN
         IF Overflows16(c.program_counter + 1, checks) THEN OverflowPanic(c1)
         ELSE Step([c1 EXCEPT !.program_counter = Wrap16(@ + 1)], Ok(-1), FALSE)

\* Mutant: the two bytes of the address are taken in the other order.
JumpToCachedAddressSwapped(c) ==
    LET r == read_program_counter(c) IN
    IF r.kind # "Ok" THEN Fail(c, r)
    ELSE Step([c EXCEPT !.program_counter = build_address(r.val, c.cache[1])], Ok(-1), TRUE)

\* build_address(cpu.cache[0], cpu.read_program_counter()?) into the program counter
JumpToCachedAddress(c) ==
    LET r == read_program_counter(c) IN
    IF r.kind # "Ok" THEN Fail(c, r)
    ELSE Step([c EXCEPT !.program_counter = build_address(c.cache[1], r.val)], Ok(-1), TRUE)

\* Cpu::jump_absolute_cycles
jump_absolute_cycles(c, checks) ==
    CASE c.current_instruction_cycle = 2 -> FetchToCache(c, checks)
      [] c.current_instruction_cycle = 3 -> JumpToCachedAddress(c)
      [] OTHER -> OutOfBounds(c)

\* Mutant: the byte the third cycle reads from the stack page is kept in Y.
JsrKeepsStackByte(c, checks) ==
    CASE c.current_instruction_cycle = 2 -> FetchToCache(c, checks)
      [] c.current_instruction_cycle = 3 ->
           LET r == CpuBusRead(c, 256) IN
           IF r.kind # "Ok" THEN Fail(c, r)
           ELSE Step([c EXCEPT !.register_y = r.val], Ok(-1), FALSE)
      [] c.current_instruction_cycle = 4 ->
           LET w == stack_push(c, upper_byte(c.program_counter), checks) IN
           IF w.res.kind # "Ok" THEN Fail(w.c, w.res) ELSE Step(w.c, Ok(-1), FALSE)
      [] c.current_instruction_cycle = 5 ->
           LET w == stack_push(c, lower_byte(c.program_counter), checks) IN
           IF w.res.kind # "Ok" THEN Fail(w.c, w.res) ELSE Step(w.c, Ok(-1), FALSE)
      [] c.current_instruction_cycle = 6 -> JumpToCachedAddress(c)
      [] OTHER -> OutOfBounds(c)

\* Cpu::jump_to_subroutine_absolute_cycles
jump_to_subroutine_absolute_cycles(c, checks) ==
    CASE c.current_instruction_cycle = 2 -> FetchToCache(c, checks)
      [] c.current_instruction_cycle = 3 ->
           LET r == CpuBusRead(c, 256) IN
           IF r.kind # "Ok" THEN Fail(c, r) ELSE Step(c, Ok(-1), FALSE)
      [] c.current_instruction_cycle = 4 ->
           LET w == stack_push(c, upper_byte(c.program_counter), checks) IN
           IF w.res.kind # "Ok" THEN Fail(w.c, w.res) ELSE Step(w.c, Ok(-1), FALSE)
      [] c.current_instruction_cycle = 5 ->
           LET w == stack_push(c, lower_byte(c.program_counter), checks) IN
           IF w.res.kind # "Ok" THEN Fail(w.c, w.res) ELSE Step(w.c, Ok(-1), FALSE)
      [] c.current_instruction_cycle = 6 -> JumpToCachedAddress(c)
      [] OTHER -> OutOfBounds(c)

\* Cpu::load_x_register_immediate_cycles
load_x_register_immediate_cycles(c, checks) ==
    CASE c.current_instruction_cycle = 2 ->
           LET r == read_program_counter(c) IN
           IF r.kind # "Ok" THEN Fail(c, r)
           ELSE LET c1 == [c EXCEPT !.register_x = r.val] IN
                IF Overflows16(c.program_counter + 1, checks) THEN OverflowPanic(c1)
                ELSE Step(set_signedness([c1 EXCEPT !.program_counter = Wrap16(@ + 1)],
                                         r.val),
                          Ok(-1), TRUE)
      [] OTHER -> OutOfBounds(c)

\* Cpu::store_x_register_zero_page_cycles
store_x_register_zero_page_cycles(c, checks) ==
    CASE c.current_instruction_cycle = 2 -> FetchToCache(c, checks)
      [] c.current_instruction_cycle = 3 ->
           LET w == BusWrite(c.cpu_ram, c.cartridge, c.cache[1], c.register_x) IN
           IF w.res.kind # "Ok" THEN Fail(c, w.res)
           ELSE Step([c EXCEPT !.cpu_ram = w.cpu_ram, !.cartridge = w.cartridge],
                     Ok(-1), TRUE)
      [] OTHER -> OutOfBounds(c)

\* let _ = cpu.read_program_counter(): an error is dropped, a panic is not.
DummyRead(c, address, then) ==
    LET r == CpuBusRead(c, address) IN
    IF r.kind = "Panic" THEN Step(c, r, FALSE) ELSE then

\* Mutant: the NOP does not report its completion.
NoOperationGoesOn(c) ==
    CASE c.current_instruction_cycle = 2 ->
           DummyRead(c, c.program_counter, Step(c, Ok(-1), FALSE))
      [] OTHER -> OutOfBounds(c)

\* Mutant: the NOP steps over the byte its dummy read looked at.
NoOperationSkipsByte(c) ==
    CASE c.current_instruction_cycle = 2 ->
           DummyRead(c, c.program_counter,
                     Step([c EXCEPT !.program_counter = Wrap16(@ + 1)], Ok(-1), TRUE))
      [] OTHER -> OutOfBounds(c)

\* Cpu::no_operation_cycles
no_operation_cycles(c) ==
    CASE c.current_instruction_cycle = 2 ->
           DummyRead(c, c.program_counter, Step(c, Ok(-1), TRUE))
      [] OTHER -> OutOfBounds(c)

\* Mutant: SEC flips Carry.
SetCarryToggles(c) ==
    CASE c.current_instruction_cycle = 2 ->
           DummyRead(c, c.program_counter,
                     Step([c EXCEPT !.status = IF contains(@, Carry) THEN remove(@, Carry)
                                               ELSE insert(@, Carry)],
                          Ok(-1), TRUE))
      [] OTHER -> OutOfBounds(c)

\* Cpu::set_carry_flag_implied_cycles
set_carry_flag_implied_cycles(c) ==
    CASE c.current_instruction_cycle = 2 ->
           DummyRead(c, c.program_counter,
                     Step([c EXCEPT !.status = insert(@, Carry)], Ok(-1), TRUE))
      [] OTHER -> OutOfBounds(c)

\* Mutant: CLC clears the B bit along with Carry.
ClearCarryClearsB(c) ==
    CASE c.current_instruction_cycle = 2 ->
           DummyRead(c, c.program_counter,
                     Step([c EXCEPT !.status = remove(remove(@, Carry), B)], Ok(-1), TRUE))
      [] OTHER -> OutOfBounds(c)

\* Cpu::clear_carry_flag_implied_cycles
clear_carry_flag_implied_cycles(c) ==
    CASE c.current_instruction_cycle = 2 ->
           DummyRead(c, c.program_counter,
                     Step([c EXCEPT !.status = remove(@, Carry)], Ok(-1), TRUE))
      [] OTHER -> OutOfBounds(c)

\* Mutant: every taken branch goes through the high byte correction.
BranchNeverStaysOnPage(pc, new_program_counter) == FALSE

\* new_program_counter.upper_byte() == self.program_counter.upper_byte()
BranchStaysOnPage(pc, new_program_counter) ==
    upper_byte(new_program_counter) = upper_byte(pc)

\* Cpu::branch_cycles
branch_cycles(c, status_flag, not, checks) ==
    CASE c.current_instruction_cycle = 2 ->
           LET r == read_program_counter(c) IN
           IF r.kind # "Ok" THEN Fail(c, r)
           ELSE IF Overflows16(c.program_counter + 1, checks) THEN OverflowPanic(c)
           ELSE LET c1 == [c EXCEPT !.program_counter = Wrap16(@ + 1)] IN
                IF ~BranchTaken(c.status, status_flag, not)
                THEN Step(c1, Ok(-1), TRUE)
                ELSE Step([c1 EXCEPT !.cache = Append(@, r.val)], Ok(-1), FALSE)
      [] c.current_instruction_cycle = 3 ->
           IF Overflows16(c.program_counter + 1, checks) THEN OverflowPanic(c)
           ELSE DummyRead(c, Wrap16(c.program_counter + 1),
                  IF Overflows16(c.program_counter + c.cache[1], checks)
                  THEN OverflowPanic(c)
                  ELSE LET new_program_counter == Wrap16(c.program_counter + c.cache[1]) IN
                       IF BranchStaysOnPage(c.program_counter, new_program_counter)
                       THEN Step([c EXCEPT !.program_counter = new_program_counter],
                                 Ok(-1), TRUE)
                       ELSE Step([c EXCEPT !.program_counter =
                                      build_address(lower_byte(new_program_counter),
                                                    upper_byte(c.program_counter))],
                                 Ok(-1), FALSE))
      [] c.current_instruction_cycle = 4 ->
           DummyRead(c, c.program_counter,
             IF Overflows8(upper_byte(c.program_counter) + 1, checks)
             THEN OverflowPanic(c)
             ELSE Step([c EXCEPT !.program_counter =
                            build_address(lower_byte(c.program_counter),
                                          Wrap8(upper_byte(c.program_counter) + 1))],
                       Ok(-1), TRUE))
      [] OTHER -> OutOfBounds(c)

---------------------------------------------------------------------------
(* cpu.rs: Cpu::cycle.                                                     *)

Outcome(c, res, snapshot) == [c |-> c, res |-> res, snapshot |-> snapshot]

\* Mutant: the opcode fetch is repeated on the second cycle.
IsFetchCycleTwice(c) == c.current_instruction_cycle <= 2

\* self.current_instruction_cycle == 1
IsFetchCycle(c) == c.current_instruction_cycle = 1

\* Mutant: a fetch that cannot read its opcode steps over it.
CycleFetchStepsOver(c, checks) ==
    LET s == CpuSnapshotNew(c) IN
    IF s.res.kind # "Ok"
    THEN Outcome([c EXCEPT !.program_counter = Wrap16(@ + 1)],
                 MapErr(s.res, "CpuError::BusError"), NoSnapshot)
    ELSE
    LET opcode == CpuBusRead(c, c.program_counter) IN
    IF opcode.kind # "Ok"
    THEN Outcome([c EXCEPT !.program_counter = Wrap16(@ + 1)],
                 MapErr(opcode, "CpuError::BusError"), NoSnapshot)
    ELSE
    LET instruction == dispatch_opcode(opcode.val) IN
    IF instruction.kind # "Ok" THEN Outcome(c, instruction, NoSnapshot)
    ELSE
    LET c1 == [c EXCEPT !.current_instruction = instruction.val]
        data == dispatch_instruction(c1, checks)
    IN
    IF data.res.kind # "Ok"
    THEN Outcome(c1, MapErr(data.res, "CpuError::BusError"), NoSnapshot)
    ELSE IF Overflows16(c1.program_counter + 1, checks)
    THEN Outcome(c1, Panic("attempt to add with overflow"), NoSnapshot)
    ELSE Outcome([c1 EXCEPT !.program_counter = Wrap16(@ + 1),
                            !.current_instruction_cycle = @ + 1],
                 Ok(-1),
                 [s.snapshot EXCEPT !.instruction_data = data.data])

\* The body of `if self.current_instruction_cycle == 1 { ... }`
CycleFetch(c, checks) ==
    LET s == CpuSnapshotNew(c) IN
    IF s.res.kind # "Ok" THEN Outcome(c, MapErr(s.res, "CpuError::BusError"), NoSnapshot)
    ELSE
    LET opcode == CpuBusRead(c, c.program_counter) IN
    IF opcode.kind # "Ok" THEN Outcome(c, MapErr(opcode, "CpuError::BusError"), NoSnapshot)
    ELSE
    LET instruction == dispatch_opcode(opcode.val) IN
    IF instruction.kind # "Ok" THEN Outcome(c, instruction, NoSnapshot)
    ELSE
    LET c1 == [c EXCEPT !.current_instruction = instruction.val]
        data == dispatch_instruction(c1, checks)
    IN
    IF data.res.kind # "Ok"
    THEN Outcome(c1, MapErr(data.res, "CpuError::BusError"), NoSnapshot)
    ELSE IF Overflows16(c1.program_counter + 1, checks)
    THEN Outcome(c1, Panic("attempt to add with overflow"), NoSnapshot)
    ELSE Outcome([c1 EXCEPT !.program_counter = Wrap16(@ + 1),
                            !.current_instruction_cycle = @ + 1],
                 Ok(-1),
                 [s.snapshot EXCEPT !.instruction_data = data.data])

\* The match on self.current_instruction that picks the cycle handler.
InstructionCycles(c, checks) ==
    LET i == c.current_instruction IN
    CASE i = "JumpAbsolute" -> jump_absolute_cycles(c, checks)
      [] i = "LoadXRegisterImmediate" -> load_x_register_immediate_cycles(c, checks)
      [] i = "StoreXRegisterZeroPage" -> store_x_register_zero_page_cycles(c, checks)
      [] i = "JumpToSubroutineAbsolute" -> jump_to_subroutine_absolute_cycles(c, checks)
      [] i = "NoOperationImplied" -> no_operation_cycles(c)
      [] i = "SetCarryFlagImplied" -> set_carry_flag_implied_cycles(c)
      [] i = "ClearCarryFlagImplied" -> clear_carry_flag_implied_cycles(c)
      [] IsBranch(i) -> branch_cycles(c, BranchTable[i][1], BranchTable[i][2], checks)
      [] i = "Stub" ->
           Step(c, Panic("The stub instruction should never go beyond step 1!"), FALSE)

\* Mutant: a completion reported in the sixth cycle is ignored.
CycleExecuteIgnoresSixth(c, checks) ==
    LET h == InstructionCycles(c, checks) IN
    IF h.res.kind # "Ok"
    THEN Outcome(h.c, MapErr(h.res, "CpuError::InstructionError"), NoSnapshot)
    ELSE IF h.fin /\ c.current_instruction_cycle < 6
    THEN Outcome([h.c EXCEPT !.current_instruction_cycle = 1, !.cache = <<>>],
                 Ok(-1), NoSnapshot)
    ELSE Outcome([h.c EXCEPT !.current_instruction_cycle = Wrap8(@ + 1)],
                 Ok(-1), NoSnapshot)

\* Mutant: on completion the counter is reset and the cache is left as it is.
CycleExecuteKeepsCache(c, checks) ==
    LET h == InstructionCycles(c, checks) IN
    IF h.res.kind # "Ok"
    THEN Outcome(h.c, MapErr(h.res, "CpuError::InstructionError"), NoSnapshot)
    ELSE IF h.fin
    THEN Outcome([h.c EXCEPT !.current_instruction_cycle = 1], Ok(-1), NoSnapshot)
    ELSE Outcome([h.c EXCEPT !.current_instruction_cycle = Wrap8(@ + 1)],
                 Ok(-1), NoSnapshot)

\* Mutant: a failing handler aborts the instruction: the cache is emptied
\* and the instruction cycle counter reset.
CycleExecuteAborts(c, checks) ==
    LET h == InstructionCycles(c, checks) IN
    IF h.res.kind # "Ok"
    THEN Outcome([h.c EXCEPT !.current_instruction_cycle = 1, !.cache = <<>>],
                 MapErr(h.res, "CpuError::InstructionError"), NoSnapshot)
    ELSE IF h.fin
    THEN Outcome([h.c EXCEPT !.current_instruction_cycle = 1, !.cache = <<>>],
                 Ok(-1), NoSnapshot)
    ELSE Outcome([h.c EXCEPT !.current_instruction_cycle = Wrap8(@ + 1)],
                 Ok(-1), NoSnapshot)

\* The rest of Cpu::cycle, for the cycles after the fetch.
CycleExecute(c, checks) ==
    LET h == InstructionCycles(c, checks) IN
    IF h.res.kind # "Ok"
    THEN Outcome(h.c, MapErr(h.res, "CpuError::InstructionError"), NoSnapshot)
    ELSE IF h.fin
    THEN Outcome([h.c EXCEPT !.current_instruction_cycle = 1, !.cache = <<>>],
                 Ok(-1), NoSnapshot)
    ELSE IF Overflows8(h.c.current_instruction_cycle + 1, checks)
    THEN Outcome(h.c, Panic("attempt to add with overflow"), NoSnapshot)
    ELSE Outcome([h.c EXCEPT !.current_instruction_cycle = Wrap8(@ + 1)],
                 Ok(-1), NoSnapshot)

\* Cpu::cycle
cycle(c, checks) ==
    IF Overflows16(c.cpu_cycles + 1, checks)
    THEN Outcome(c, Panic("attempt to add with overflow"), NoSnapshot)
    ELSE LET c0 == [c EXCEPT !.cpu_cycles = Wrap16(@ + 1)] IN
         IF IsFetchCycle(c0) THEN CycleFetch(c0, checks) ELSE CycleExecute(c0, checks)

---------------------------------------------------------------------------
(* The processor running a program: the programs, where they are loaded,   *)
(* and the action of one cpu.cycle() call.                                 *)

\* Number of cpu.cycle() calls of a run.
MaxCycles == 12

\* Instructions run before the one under study, to put the flags in place.
SetupPrograms ==
    {<<>>, <<56>>, <<24>>, <<234>>, <<162, 0>>, <<162, 128>>}

BranchOpcodes == {176, 144, 240, 208, 112, 80, 48, 16}

BranchOffsets == {16, 32, 254}

StudiedPrograms ==
    {<<op, d>> : op \in BranchOpcodes, d \in BranchOffsets}
    \cup {<<76, 51, 85>>, <<76, 0, 128>>, <<32, 238, 119>>, <<32, 0, 128>>,
          <<134, 0>>, <<134, 255>>, <<162, 1>>, <<162, 0>>, <<162, 128>>,
          <<162, 204, 134, 0>>, <<162, 0, 134, 255>>, <<162, 127, 134, 128>>, <<0>>,
          <<255>>, <<56>>, <<24>>, <<234>>}

Programs == {a \o b : a \in SetupPrograms, b \in StudiedPrograms}

StartProgramCounters == {32768, 33021, 65533, 8189, 507}

Truncate(prog, room) == IF Len(prog) > room THEN SubSeq(prog, 1, room) ELSE prog

\* An iNES image of `units` banks of NOPs with prog at the place the Nrom
\* maps program counter pc to.
RomWithProgram(units, pc, prog) ==
    LET size == units * 16 * BYTES_ON_A_KIBIBYTE
        at == (pc - NromPrgStart) % size
    IN  InesFile([u \in 1..units |-> 234], at, Truncate(prog, size - at))

\* The RAM with prog at the cell program counter pc maps to.
RamWithProgram(pc, prog) ==
    RamImage(234, MaskAddress(pc), Truncate(prog, CpuRamSize - MaskAddress(pc)))

\* status: CpuStatusFlags::Decimal | CpuStatusFlags::B
ResetStatus == insert(Decimal, B)

\* Mutant: the stack pointer starts at the top of the stack page.
NewWithFullStack(pc) ==
    /\ accumulator = 0
    /\ register_x = 0
    /\ register_y = 0
    /\ status = ResetStatus
    /\ stack_pointer = 255
    /\ program_counter = pc
    /\ current_instruction = "Stub"
    /\ current_instruction_cycle = 1
    /\ cache = <<>>
    /\ cpu_cycles = 6
    /\ last_snapshot = NoSnapshot

\* Cpu::new_with_program_counter
new_with_program_counter(pc) ==
    /\ accumulator = 0
    /\ register_x = 0
    /\ register_y = 0
    /\ status = ResetStatus
    /\ stack_pointer = 253
    /\ program_counter = pc
    /\ current_instruction = "Stub"
    /\ current_instruction_cycle = 1
    /\ cache = <<>>
    /\ cpu_cycles = 6
    /\ last_snapshot = NoSnapshot

\* Cpu::new
new == new_with_program_counter(32768)

InitCpu ==
    \E pc \in StartProgramCounters, prog \in Programs, units \in 1..2 :
        /\ new_with_program_counter(pc)
        /\ IF BusRegion(pc) = "CpuRam"
           THEN /\ cpu_ram = RamWithProgram(pc, prog)
                /\ cartridge = NromNew(units = 2, RomWithProgram(units, NromPrgStart, <<>>))
           ELSE /\ cpu_ram = RamImage(0, 0, <<>>)
                /\ cartridge = NromNew(units = 2, RomWithProgram(units, pc, prog))
        /\ overflow_checks \in BOOLEAN
        /\ ret = NoRet

\* cpu.cycle(), in a run of at most limit calls
CycleCall(limit) ==
    /\ ret.kind # "Panic"
    /\ cpu_cycles < 6 + limit
    /\ \E o \in {cycle(CpuRecord, overflow_checks)} :
       /\ accumulator' = o.c.accumulator
       /\ register_x' = o.c.register_x
       /\ register_y' = o.c.register_y
       /\ status' = o.c.status
       /\ stack_pointer' = o.c.stack_pointer
       /\ program_counter' = o.c.program_counter
       /\ current_instruction' = o.c.current_instruction
       /\ current_instruction_cycle' = o.c.current_instruction_cycle
       /\ cache' = o.c.cache
       /\ cpu_cycles' = o.c.cpu_cycles
       /\ cpu_ram' = o.c.cpu_ram
       /\ cartridge' = o.c.cartridge
       /\ last_snapshot' = IF o.snapshot.present THEN o.snapshot ELSE last_snapshot
       /\ ret' = Ret("cycle", -1, -1, o.res, <<>>, o.snapshot)
    /\ UNCHANGED overflow_checks

\* cpu.cycle()
Cycle == CycleCall(MaxCycles)

NextCpu == Cycle

SpecCpu == InitCpu /\ [][NextCpu]_vars

\* What every cpu.cycle() call does to the global cycle count, in a run of
\* at most MaxCycles calls.
CycleCounted ==
    /\ ret.kind # "Panic"
    /\ cpu_cycles < 6 + MaxCycles
    /\ cpu_cycles' = cpu_cycles + 1

\* The caller keeps calling cpu.cycle(): every run goes on to its last call.
FairCpu == SpecCpu /\ WF_cpu_cycles(CycleCounted)

\* Number of cpu.cycle() calls of a run of consecutive JSRs: the 127th JSR
\* from reset pushes with the stack pointer at 1 and then at 0, on calls
\* 760 and 761.
MaxLoopCycles == 770

\* Where the runs of consecutive JSRs start: in ROM and in RAM.
LoopProgramCounters == {32768, 0}

\* JSR to its own address: every instruction run is a JSR.
JsrLoop(pc) == <<32, lower_byte(pc), upper_byte(pc)>>

InitStack ==
    \E pc \in LoopProgramCounters :
        /\ new_with_program_counter(pc)
        /\ IF BusRegion(pc) = "CpuRam"
           THEN /\ cpu_ram = RamWithProgram(pc, JsrLoop(pc))
                /\ cartridge = NromNew(FALSE, RomWithProgram(1, NromPrgStart, <<>>))
           ELSE /\ cpu_ram = RamImage(0, 0, <<>>)
                /\ cartridge = NromNew(FALSE, RomWithProgram(1, pc, JsrLoop(pc)))
        /\ overflow_checks \in BOOLEAN
        /\ ret = NoRet

\* cpu.cycle(), in a run of consecutive JSRs
LoopCycle == CycleCall(MaxLoopCycles)

NextStack == LoopCycle

SpecStack == InitStack /\ [][NextStack]_vars

\* Number of cpu.cycle() calls of a run over a ROM of NOPs: cpu_cycles, a
\* u16 that starts at 6, holds 65535 after 65529 calls.
MaxSledCycles == 65536

\* A 16 KiB image of NOPs behind the cartridge the parser builds; the RAM
\* holds zeroes.
InitSled ==
    /\ new
    /\ cpu_ram = RamImage(0, 0, <<>>)
    /\ cartridge = NromNew(FALSE, RomWithProgram(1, NromPrgStart, <<>>))
    /\ overflow_checks \in BOOLEAN
    /\ ret = NoRet

\* cpu.cycle(), in a run over the NOPs
SledCycle == CycleCall(MaxSledCycles)

NextSled == SledCycle

SpecSled == InitSled /\ [][NextSled]_vars

---------------------------------------------------------------------------
(* The claims about Cpu::cycle.  A claim about what a call sets and        *)
(* returns is read as a claim about the calls that return Ok: a call that  *)
(* panics returns nothing to its caller.                                   *)

\* The byte the bus holds at the program counter.
ByteAtProgramCounter == BusRead(cpu_ram, cartridge, program_counter).res

\* C8: a cycle() call made with the instruction cycle counter at 1 and a
\* mapped opcode at the program counter sets the current instruction to the
\* one mapped from that byte, advances the program counter by 1 (modulo
\* 2^16), sets the counter to 2, and returns a snapshot of A, X, Y, status,
\* stack pointer and program counter as they were before the call with the
\* opcode byte read; A, X, Y, status, stack pointer, RAM and cache are
\* unchanged.
C8_FetchTransition ==
    [][(/\ ret'.op = "cycle" /\ ret'.kind = "Ok"
        /\ current_instruction_cycle = 1
        /\ ByteAtProgramCounter.kind = "Ok"
        /\ ByteAtProgramCounter.val \in DOMAIN OpcodeTable)
       => /\ current_instruction' = OpcodeTable[ByteAtProgramCounter.val]
          /\ program_counter' = (program_counter + 1) % 65536
          /\ current_instruction_cycle' = 2
          /\ ret'.snapshot.present
          /\ ret'.snapshot.accumulator = accumulator
          /\ ret'.snapshot.register_x = register_x
          /\ ret'.snapshot.register_y = register_y
          /\ ret'.snapshot.status = status
          /\ ret'.snapshot.stack_pointer = stack_pointer
          /\ ret'.snapshot.program_counter = program_counter
          /\ ret'.snapshot.opcode = ByteAtProgramCounter.val
          /\ UNCHANGED <<accumulator, register_x, register_y, status, stack_pointer,
                         cpu_ram, cache>>]_vars

\* A fetch of the LDX after a SEC at 0x80FD: the registers of the snapshot
\* are the ones SEC left, the program counter has moved past the opcode.
C8_Witness ==
    /\ ret.op = "cycle" /\ ret.kind = "Ok" /\ ret.snapshot.present
    /\ ret.snapshot.opcode = 162 /\ ret.snapshot.program_counter = 33022
    /\ ret.snapshot.status = 25 /\ status = 25
    /\ current_instruction = "LoadXRegisterImmediate"
    /\ program_counter = 33023 /\ current_instruction_cycle = 2

\* C9: a cycle() call that returns Ok returns a snapshot if and only if the
\* instruction cycle counter was 1 when it was called.
C9_SnapshotOnlyOnFetch ==
    [][(ret'.op = "cycle" /\ ret'.kind = "Ok")
       => (ret'.snapshot.present <=> current_instruction_cycle = 1)]_vars

\* The fourth cycle of a JSR: a call made with the counter at 4 that returned
\* no snapshot.
C9_Witness ==
    /\ ret.op = "cycle" /\ ret.kind = "Ok" /\ ~ret.snapshot.present
    /\ current_instruction = "JumpToSubroutineAbsolute"
    /\ current_instruction_cycle = 5
    /\ last_snapshot.present /\ last_snapshot.cpy_cycles + 3 = cpu_cycles

\* The number of calls after the fetch C10 gives the branch last fetched:
\* p and d are the program counter and the operand of its snapshot.
ClaimedBranchCalls ==
    LET p == last_snapshot.program_counter
        d == last_snapshot.instruction_data.arg_1
        target == (p + 2 + d) % 65536
        flag == BranchTable[current_instruction]
    IN  IF ~BranchTaken(last_snapshot.status, flag[1], flag[2]) THEN 1
        ELSE IF upper_byte(target) = upper_byte(p) THEN 2
        ELSE 3

\* C10: a branch fetched at p with operand d completes (counter back at 1)
\* after exactly 1 call following the fetch when the condition is false,
\* after exactly 2 when it is taken and the high byte of p + 2 + d equals
\* that of p, and after exactly 3 when it is taken and they differ.
C10_BranchTiming ==
    [][(/\ ret'.op = "cycle" /\ ret'.kind = "Ok"
        /\ current_instruction_cycle >= 2
        /\ IsBranch(current_instruction))
       => (current_instruction_cycle' = 1
             <=> current_instruction_cycle - 1 = ClaimedBranchCalls)]_vars

\* The run C10 is refuted by: BCC $8110 fetched at 0x80FE with the carry
\* clear reports 3 idle cycles and is complete, at its target, 2 calls after
\* the fetch.
C10_CompletesEarly ==
    /\ last_snapshot.present
    /\ last_snapshot.opcode = 144 /\ last_snapshot.program_counter = 33022
    /\ last_snapshot.instruction_data.arg_1 = 16
    /\ last_snapshot.instruction_data.idle_cycles = 3
    /\ ret.op = "cycle" /\ ret.kind = "Ok"
    /\ cpu_cycles = last_snapshot.cpy_cycles + 2
    /\ current_instruction_cycle = 1 /\ program_counter = 33040

\* The target C10 and C11 give the branch last fetched, and whether it
\* crosses a page: the high bytes of the target and of the branch's own
\* address differ.
ClaimedBranchTarget ==
    (last_snapshot.program_counter + 2 + last_snapshot.instruction_data.arg_1) % 65536

ClaimedPageCross ==
    upper_byte(ClaimedBranchTarget) # upper_byte(last_snapshot.program_counter)

\* C11: for a taken branch whose target crosses a page, the second call
\* after the fetch leaves the program counter at the target's low byte with
\* a stale high byte (that of the branch's address or of the program counter
\* before the call), which is not the target, with the instruction still
\* running; the next call leaves the program counter at the target.
C11_PageCrossCorrection ==
    [][(/\ ret'.op = "cycle" /\ ret'.kind = "Ok"
        /\ IsBranch(current_instruction)
        /\ ClaimedPageCross)
       => /\ current_instruction_cycle = 3
             => /\ program_counter'
                     \in {build_address(lower_byte(ClaimedBranchTarget),
                                        upper_byte(last_snapshot.program_counter)),
                          build_address(lower_byte(ClaimedBranchTarget),
                                        upper_byte(program_counter))}
                /\ program_counter' # ClaimedBranchTarget
                /\ current_instruction_cycle' = 4
          /\ current_instruction_cycle = 4
             => /\ program_counter' = ClaimedBranchTarget
                /\ current_instruction_cycle' = 1]_vars

\* The run C11 is refuted by: BNE $8110 fetched at 0x80FE with Zero clear is
\* at its target after the second call, without the intermediate value.
C11_NoIntermediateValue ==
    /\ last_snapshot.present
    /\ last_snapshot.opcode = 208 /\ last_snapshot.program_counter = 33022
    /\ last_snapshot.instruction_data.arg_1 = 16
    /\ ret.op = "cycle" /\ ret.kind = "Ok"
    /\ cpu_cycles = last_snapshot.cpy_cycles + 2
    /\ current_instruction_cycle = 1 /\ program_counter = 33040

\* The fetch snapshot of the JSR being run: its address p, the stack pointer
\* s and the operand bytes lo and hi it reports.
JsrAddress == last_snapshot.program_counter

JsrStackPointer == last_snapshot.stack_pointer

JsrReturnAddress == (JsrAddress + 2) % 65536

\* The byte at p + 2 is one of the two RAM cells the pushes write.
JsrOperandOnStack ==
    /\ BusRegion(JsrReturnAddress) = "CpuRam"
    /\ MaskAddress(JsrReturnAddress)
         \in {MaskAddress(256 + JsrStackPointer), MaskAddress(256 + JsrStackPointer - 1)}

\* What C12 says of one cycle() call of a JSR that returns Ok; exact is
\* whether the final program counter is claimed for every JSR or only for
\* one whose high operand byte is not on the stack cells.
JsrCall(exact) ==
    /\ (current_instruction_cycle = 1
          /\ ret'.snapshot.present
          /\ current_instruction' = "JumpToSubroutineAbsolute")
         => ret'.snapshot.instruction_data.idle_cycles = 5
    /\ (current_instruction_cycle >= 2 /\ current_instruction = "JumpToSubroutineAbsolute")
         => /\ current_instruction_cycle' = 1 <=> current_instruction_cycle = 6
            /\ current_instruction_cycle = 3
                 => UNCHANGED <<accumulator, register_x, register_y, status,
                                stack_pointer, program_counter, cpu_ram>>
            /\ current_instruction_cycle = 4
                 => cpu_ram' = RamStore(cpu_ram, MaskAddress(256 + JsrStackPointer),
                                        upper_byte(JsrReturnAddress))
            /\ current_instruction_cycle = 5
                 => cpu_ram' = RamStore(cpu_ram, MaskAddress(256 + JsrStackPointer - 1),
                                        lower_byte(JsrReturnAddress))
            /\ current_instruction_cycle = 6
                 => /\ stack_pointer' = (JsrStackPointer - 2) % 256
                    /\ (exact \/ ~JsrOperandOnStack)
                         => program_counter' =
                              last_snapshot.instruction_data.arg_1
                              + 256 * last_snapshot.instruction_data.arg_2

\* C12 as stated: a JSR fetched at p with stack pointer s and operands lo,
\* hi takes 6 calls with the fetch; the third changes no register and no RAM
\* cell; the fourth writes the high byte of p + 2 to 0x0100 + s, the fifth
\* the low byte to 0x0100 + s - 1; it ends with the stack pointer at s - 2
\* and the program counter at lo | (hi << 8); the snapshot reports 5 idle
\* cycles.
C12_SubroutineCallAsStated ==
    [][(ret'.op = "cycle" /\ ret'.kind = "Ok") => JsrCall(TRUE)]_vars

\* C12, amended: the same, the final program counter being lo | (hi << 8)
\* when the byte at p + 2 is not one of the two RAM cells (mirrors included)
\* that the pushes write before it is read.
C12_SubroutineCall ==
    [][(ret'.op = "cycle" /\ ret'.kind = "Ok") => JsrCall(FALSE)]_vars

\* JSR $77EE from 0x8000 after reset, complete: 0x80 then 0x02 on the stack.
C12_Witness ==
    /\ last_snapshot.present /\ last_snapshot.opcode = 32
    /\ last_snapshot.program_counter = 32768
    /\ last_snapshot.instruction_data.idle_cycles = 5
    /\ ret.op = "cycle" /\ ret.kind = "Ok"
    /\ cpu_cycles = last_snapshot.cpy_cycles + 5
    /\ current_instruction_cycle = 1
    /\ program_counter = 30702 /\ stack_pointer = 251
    /\ RamByte(cpu_ram, 509) = 128 /\ RamByte(cpu_ram, 508) = 2

\* The byte the bus holds at offset n from the program counter, modulo 2^16.
ByteAtOffset(n) == BusRead(cpu_ram, cartridge, (program_counter + n) % 65536).res.val

\* C13: a JMP fetched at p with operand bytes lo at p + 1 and hi at p + 2
\* reports 2 idle cycles and the target lo | (hi << 8) as its assembly text,
\* completes on the second call after the fetch with the program counter at
\* that target, and changes no other register, no status bit and no RAM
\* cell.
C13_AbsoluteJump ==
    [][(ret'.op = "cycle" /\ ret'.kind = "Ok")
       => /\ (current_instruction_cycle = 1 /\ current_instruction' = "JumpAbsolute")
               => /\ ret'.snapshot.instruction_data.arg_1 = ByteAtOffset(1)
                  /\ ret'.snapshot.instruction_data.arg_2 = ByteAtOffset(2)
                  /\ ret'.snapshot.instruction_data.idle_cycles = 2
                  /\ ret'.snapshot.instruction_data.assembly
                       = "JMP $" \o FormatHex(ByteAtOffset(1) + 256 * ByteAtOffset(2), 4)
          /\ (current_instruction_cycle >= 2 /\ current_instruction = "JumpAbsolute")
               => /\ current_instruction_cycle' = 1 <=> current_instruction_cycle = 3
                  /\ UNCHANGED <<accumulator, register_x, register_y, status,
                                 stack_pointer, cpu_ram>>
                  /\ current_instruction_cycle = 3
                       => program_counter' =
                            last_snapshot.instruction_data.arg_1
                            + 256 * last_snapshot.instruction_data.arg_2]_vars

\* JMP $5533 from 0x8000, complete two calls after its fetch.
C13_Witness ==
    /\ last_snapshot.present /\ last_snapshot.opcode = 76
    /\ last_snapshot.program_counter = 32768
    /\ last_snapshot.instruction_data.assembly = "JMP $5533"
    /\ last_snapshot.instruction_data.idle_cycles = 2
    /\ ret.op = "cycle" /\ ret.kind = "Ok"
    /\ cpu_cycles = last_snapshot.cpy_cycles + 2
    /\ current_instruction_cycle = 1 /\ program_counter = 21811
    /\ stack_pointer = 253 /\ status = 24

\* The status bits LDX does not write.
BitsLoadXKeeps == {Carry, InterruptsDisabled, Decimal, B, Stub, Overflow}

\* C14: the call after the fetch of LDX #v completes the instruction with
\* X = v and the program counter past the operand; Zero is set if and only
\* if v = 0 and Negative if and only if v >= 0x80, whatever they were before;
\* no other status bit changes.
C14_LoadXFlags ==
    [][(/\ ret'.op = "cycle" /\ ret'.kind = "Ok"
        /\ current_instruction = "LoadXRegisterImmediate"
        /\ current_instruction_cycle >= 2)
       => /\ current_instruction_cycle' = 1
          /\ ByteAtOffset(0) = last_snapshot.instruction_data.arg_1
          /\ register_x' = ByteAtOffset(0)
          /\ program_counter' = (last_snapshot.program_counter + 2) % 65536
          /\ contains(status', Zero) <=> ByteAtOffset(0) = 0
          /\ contains(status', Negative) <=> ByteAtOffset(0) >= 128
          /\ \A f \in BitsLoadXKeeps : contains(status', f) <=> contains(status, f)
          /\ UNCHANGED <<accumulator, register_y, stack_pointer, cpu_ram>>]_vars

\* LDX #$01 run after LDX #$80: Negative, which was set, is cleared.
C14_Witness ==
    /\ last_snapshot.present /\ last_snapshot.opcode = 162
    /\ last_snapshot.instruction_data.arg_1 = 1
    /\ contains(last_snapshot.status, Negative) /\ last_snapshot.register_x = 128
    /\ ret.op = "cycle" /\ ret.kind = "Ok"
    /\ cpu_cycles = last_snapshot.cpy_cycles + 1
    /\ current_instruction_cycle = 1
    /\ register_x = 1 /\ status = 24

\* The zero-page address z of the STX in progress and its three RAM mirrors.
StoreTargets == {last_snapshot.instruction_data.arg_1 + k * CpuRamSize : k \in 0 .. 3}

\* C15: when the STX z that follows LDX #v completes, bus.read of z and of
\* each of its three RAM mirrors returns the value X held when the STX was
\* fetched (v, by C14), and X and the status flags are still as the fetch of
\* the STX found them, that is as LDX left them.
C15_LoadStoreRoundTrip ==
    [][(/\ ret'.op = "cycle" /\ ret'.kind = "Ok"
        /\ current_instruction = "StoreXRegisterZeroPage"
        /\ current_instruction_cycle' = 1)
       => /\ \A a \in StoreTargets :
               BusRead(cpu_ram', cartridge', a).res = Ok(last_snapshot.register_x)
          /\ register_x' = last_snapshot.register_x
          /\ status' = last_snapshot.status
          /\ last_snapshot.opcode = 134
          /\ last_snapshot.instruction_data.arg_1 \in 0 .. 255]_vars

\* LDX #$CC then STX $00 from reset at 0x8000: five calls in all, after
\* which RAM cell 0 holds 0xCC and Negative is still set.
C15_Witness ==
    /\ last_snapshot.present /\ last_snapshot.opcode = 134
    /\ last_snapshot.program_counter = 32770
    /\ last_snapshot.instruction_data.arg_1 = 0
    /\ ret.op = "cycle" /\ ret.kind = "Ok"
    /\ cpu_cycles = last_snapshot.cpy_cycles + 2
    /\ current_instruction_cycle = 1
    /\ register_x = 204 /\ contains(status, Negative)
    /\ BusRead(cpu_ram, cartridge, 0).res = Ok(204)
    /\ BusRead(cpu_ram, cartridge, 6144).res = Ok(204)

\* A call that pushes: the fourth and fifth calls of a JSR.
PushCall ==
    /\ ret'.op = "cycle"
    /\ current_instruction = "JumpToSubroutineAbsolute"
    /\ current_instruction_cycle \in {4, 5}

\* C16: a push with the stack pointer at s writes at 0x0100 + s and leaves
\* the stack pointer at (s - 1) mod 256, for s = 0 too; it never fails, so
\* consecutive JSRs from reset keep executing.
C16_PushWraps ==
    [][PushCall => /\ ret'.kind = "Ok"
                   /\ BusRead(cpu_ram', cartridge', STACK_ADDRESS + stack_pointer).res.kind = "Ok"
                   /\ stack_pointer' = (stack_pointer + 255) % 256]_vars

\* The same, in a build without overflow checks.
C16_PushWrapsUnchecked ==
    [][(PushCall /\ ~overflow_checks) =>
           /\ ret'.kind = "Ok"
           /\ stack_pointer' = (stack_pointer + 255) % 256]_vars

\* The 127th consecutive JSR from reset: its second push, with the stack
\* pointer at 0, has written the byte and panicked on the decrement.
C16_PushPanics ==
    /\ overflow_checks
    /\ ret.op = "cycle" /\ ret.kind = "Panic"
    /\ current_instruction = "JumpToSubroutineAbsolute"
    /\ current_instruction_cycle = 5
    /\ stack_pointer = 0
    /\ cpu_cycles = 6 + 761
    /\ 256 \in DOMAIN cpu_ram.written

\* Without overflow checks the same run goes on with the stack pointer at 0xFF.
C16_PushWrapped ==
    /\ ~overflow_checks
    /\ ret.op = "cycle" /\ ret.kind = "Ok"
    /\ stack_pointer = 255
    /\ cpu_cycles = 6 + 762
    /\ current_instruction_cycle = 1

\* The addresses the next cycle() call reads on the bus before anything
\* else: the opcode on a fetch, 0x0100 on the third call of a JSR, the byte
\* after the program counter on the third call of a branch, none on the calls
\* that only write (the pushes of a JSR, the store of an STX), and the byte
\* at the program counter on every other call, dummy reads included.
CycleReads ==
    IF current_instruction_cycle = 1 THEN {program_counter}
    ELSE IF IsBranch(current_instruction) /\ current_instruction_cycle = 3
    THEN {(program_counter + 1) % 65536}
    ELSE IF current_instruction = "JumpToSubroutineAbsolute" /\ current_instruction_cycle = 3
    THEN {STACK_ADDRESS}
    ELSE IF \/ current_instruction = "JumpToSubroutineAbsolute"
               /\ current_instruction_cycle \in {4, 5}
            \/ current_instruction = "StoreXRegisterZeroPage"
               /\ current_instruction_cycle = 3
    THEN {}
    ELSE {program_counter}

\* The error a cycle() call returns for bus error e: wrapped directly on a
\* fetch, and through the instruction's CycleError on the later calls.
WrappedBusErrors(e) ==
    {"CpuError::BusError(" \o e \o ")",
     "CpuError::InstructionError(CycleError::BusError(" \o e \o "))"}

\* C17: a cycle() call whose bus read fails, dummy reads included, returns
\* a CPU error wrapping the bus error.
C17_BusFailurePropagates ==
    [][\A a \in CycleReads :
          (ret'.op = "cycle" /\ BusRead(cpu_ram, cartridge, a).res.kind # "Ok")
          => /\ ret'.kind = "Err"
             /\ ret'.err \in WrappedBusErrors(BusRead(cpu_ram, cartridge, a).res.err)]_vars

\* The same, for the reads to which the bus answers with an error.
C17_BusErrorPropagates ==
    [][\A a \in CycleReads :
          (ret'.op = "cycle" /\ BusRead(cpu_ram, cartridge, a).res.kind = "Err")
          => /\ ret'.kind = "Err"
             /\ ret'.err \in WrappedBusErrors(BusRead(cpu_ram, cartridge, a).res.err)]_vars

\* A NOP fetched at 0x1FFF: its dummy read, at 0x2000, has ended the call
\* with a panic and not with an error.
C17_DummyReadPanics ==
    /\ ret.op = "cycle" /\ ret.kind = "Panic"
    /\ ret.err = "not yet implemented"
    /\ current_instruction = "NoOperationImplied"
    /\ current_instruction_cycle = 2
    /\ program_counter = 8192
    /\ last_snapshot.program_counter = 8191

\* JMP $5533 then a fetch at 0x5533, below the ROM: the error of the
\* cartridge comes back wrapped.
C17_FetchErrorWrapped ==
    /\ ret.op = "cycle" /\ ret.kind = "Err"
    /\ ret.err = "CpuError::BusError(BusError::CartridgeError(CartridgeError::CannotRead))"
    /\ program_counter = 21811

\* C18: a fetch that finds a byte outside the 15 mapped opcodes ends the
\* cycle() call with the fatal "not implemented" condition, returns no
\* snapshot, and leaves the program counter where it was and the instruction
\* cycle counter at 1.
C18_UnmappedOpcode ==
    [][(/\ ret'.op = "cycle"
        /\ current_instruction_cycle = 1
        /\ ByteAtOffset(0) \notin DOMAIN OpcodeTable
        /\ BusRead(cpu_ram, cartridge, program_counter).res.kind = "Ok")
       => /\ Cardinality(DOMAIN OpcodeTable) = 15
          /\ ret'.kind = "Panic"
          /\ ret'.err = "not implemented: the opcode is not implemented yet"
          /\ ~ret'.snapshot.present
          /\ program_counter' = program_counter
          /\ current_instruction_cycle' = 1
          /\ UNCHANGED <<accumulator, register_x, register_y, status, stack_pointer,
                         cache, cpu_ram, cartridge, current_instruction>>]_vars

\* SEC, then the byte 0xFF fetched at 0x8001.
C18_Witness ==
    /\ ret.op = "cycle" /\ ret.kind = "Panic"
    /\ ret.err = "not implemented: the opcode is not implemented yet"
    /\ program_counter = 32769
    /\ BusRead(cpu_ram, cartridge, program_counter).res = Ok(255)
    /\ current_instruction_cycle = 1
    /\ current_instruction = "SetCarryFlagImplied"
    /\ contains(status, Carry)
    /\ cpu_cycles = 6 + 3

\* A cycle() call after the fetch that fails: it returns an error or panics.
FailingCycle ==
    /\ ret'.op = "cycle"
    /\ ret'.kind # "Ok"
    /\ current_instruction_cycle >= 2

\* Every RAM cell written so far holds the byte it held before the call.
WrittenCellsStand ==
    \A i \in DOMAIN cpu_ram.written : RamByte(cpu_ram', i) = RamByte(cpu_ram, i)

\* The cache still begins with the bytes it held before the call.
CacheStands ==
    /\ Len(cache') >= Len(cache)
    /\ SubSeq(cache', 1, Len(cache)) = cache

C19_BranchWitness ==
    /\ ret.op = "cycle" /\ ret.kind = "Panic"
    /\ current_instruction = "BranchIfCarryClearRelative"
    /\ current_instruction_cycle = 3
    /\ program_counter = 8191
    /\ cache = <<16>>

\* Whether the handler of the current instruction reports completion on the
\* next cycle() call.
HandlerCompletes == InstructionCycles(CpuRecord, overflow_checks).fin

\* A cycle() call after the fetch that returns Ok.
SuccessfulNonFetchCall ==
    /\ ret'.op = "cycle" /\ ret'.kind = "Ok"
    /\ current_instruction_cycle >= 2

\* C20: the cache is empty whenever the instruction cycle counter is 1 and
\* never holds more than 2 bytes; a successful call after the fetch empties
\* the cache and resets the counter to 1 if the handler reports completion,
\* and otherwise adds exactly 1 to the counter and removes no cached byte;
\* a successful fetch moves the counter to 2 and leaves the cache empty.
C20_CacheLifecycle ==
    /\ [](/\ current_instruction_cycle = 1 => cache = <<>>
          /\ Len(cache) <= 2)
    /\ [][SuccessfulNonFetchCall =>
            IF HandlerCompletes
            THEN current_instruction_cycle' = 1 /\ cache' = <<>>
            ELSE /\ current_instruction_cycle' = current_instruction_cycle + 1
                 /\ CacheStands]_vars
    /\ [][(ret'.op = "cycle" /\ ret'.kind = "Ok" /\ current_instruction_cycle = 1)
          => current_instruction_cycle' = 2 /\ cache' = cache]_vars

\* JSR $8000 from reset at 0x8000: the sixth call has completed it, and the
\* cache, which held the low byte since the second call, is empty again.
C20_Witness ==
    /\ ret.op = "cycle" /\ ret.kind = "Ok"
    /\ current_instruction = "JumpToSubroutineAbsolute"
    /\ last_snapshot.instruction_data.arg_2 = 128
    /\ cpu_cycles = last_snapshot.cpy_cycles + 5
    /\ current_instruction_cycle = 1
    /\ cache = <<>>
    /\ program_counter = 32768

\* The cache in use: the fifth call of a JSR done, with the low byte cached.
C20_CacheInUse ==
    /\ current_instruction = "JumpToSubroutineAbsolute"
    /\ current_instruction_cycle = 6
    /\ Len(cache) = 1

\* The number of cycle() calls made after the fetch of the current instruction,
\* the call in progress included.
CallsAfterFetch == cpu_cycles' - last_snapshot.cpy_cycles

\* C21: an instruction completes (the instruction cycle counter returns to
\* 1) on exactly the call that is the idle_cycles-th after its fetch, where
\* idle_cycles is the value its fetch snapshot reported.
C21_IdleCyclesMatchExecution ==
    [][(ret'.op = "cycle" /\ ret'.kind = "Ok" /\ current_instruction_cycle >= 2)
       => (current_instruction_cycle' = 1
           <=> CallsAfterFetch = last_snapshot.instruction_data.idle_cycles)]_vars

\* The same, for the instructions other than SEC, CLC and the branches.
C21_IdleCyclesOfTheOthers ==
    [][(/\ ret'.op = "cycle" /\ ret'.kind = "Ok" /\ current_instruction_cycle >= 2
        /\ ~IsBranch(current_instruction)
        /\ current_instruction \notin {"SetCarryFlagImplied", "ClearCarryFlagImplied"})
       => (current_instruction_cycle' = 1
           <=> CallsAfterFetch = last_snapshot.instruction_data.idle_cycles)]_vars

\* SEC fetched at 0x8000 from reset: the snapshot reported 2 idle cycles and
\* the first call after the fetch has completed the instruction.
C21_SecCompletesEarly ==
    /\ last_snapshot.present /\ last_snapshot.opcode = 56
    /\ last_snapshot.program_counter = 32768
    /\ last_snapshot.instruction_data.idle_cycles = 2
    /\ ret.op = "cycle" /\ ret.kind = "Ok"
    /\ cpu_cycles = last_snapshot.cpy_cycles + 1
    /\ current_instruction_cycle = 1
    /\ contains(status, Carry)

\* The eight bits of the status register.
StatusBits == {Carry, Zero, InterruptsDisabled, Decimal, B, Stub, Overflow, Negative}

\* The status bits the instruction in progress may change.
BitsWrittenBy(instruction) ==
    IF instruction \in {"SetCarryFlagImplied", "ClearCarryFlagImplied"} THEN {Carry}
    ELSE IF instruction = "LoadXRegisterImmediate" THEN {Zero, Negative}
    ELSE {}

\* C22: the B bit and the unused bit (bit 5) keep the values they had at
\* reset, in the status register and in every snapshot, and a cycle() call
\* changes no status bit but Carry (SEC, CLC) and Zero and Negative (LDX).
C22_PreservedStatusBits ==
    /\ [](\A f \in {B, Stub} :
            /\ contains(status, f) <=> contains(ResetStatus, f)
            /\ last_snapshot.present =>
                 (contains(last_snapshot.status, f) <=> contains(ResetStatus, f)))
    /\ [][\A f \in StatusBits :
            (contains(status', f) # contains(status, f))
            => (ret'.op = "cycle" /\ f \in BitsWrittenBy(current_instruction))]_vars

\* CLC run after SEC: Carry has gone from set to clear, and the snapshot of
\* the CLC and the register still hold B set and bit 5 clear, as at reset.
C22_Witness ==
    /\ last_snapshot.present /\ last_snapshot.opcode = 24
    /\ contains(last_snapshot.status, Carry)
    /\ contains(last_snapshot.status, B) /\ ~contains(last_snapshot.status, Stub)
    /\ ret.op = "cycle" /\ ret.kind = "Ok"
    /\ current_instruction_cycle = 1
    /\ cpu_cycles = last_snapshot.cpy_cycles + 1
    /\ status = ResetStatus

\* C23: every cycle() call adds exactly 1 to the global cycle counter, and
\* each snapshot reports a larger count than the one before it.
C23_MonotonicCycleCounter ==
    [][ret'.op = "cycle" =>
         /\ cpu_cycles' = cpu_cycles + 1
         /\ (ret'.snapshot.present /\ last_snapshot.present)
            => ret'.snapshot.cpy_cycles > last_snapshot.cpy_cycles]_vars

\* The same, for the calls made before the counter reaches 65535.
C23_MonotonicBelowTheTop ==
    [][(/\ ret'.op = "cycle" /\ cpu_cycles < U16Max
        /\ last_snapshot.present => last_snapshot.cpy_cycles <= cpu_cycles) =>
         /\ cpu_cycles' = cpu_cycles + 1
         /\ (ret'.snapshot.present /\ last_snapshot.present)
            => ret'.snapshot.cpy_cycles > last_snapshot.cpy_cycles]_vars

\* A build without overflow checks, 65531 calls after reset: the counter
\* went from 65535 to 0 on the call before, and the fetch at 0xFFFD reports
\* the count 1 where the fetch before it reported 65535.
C23_CounterWrapped ==
    /\ ~overflow_checks
    /\ ret.op = "cycle" /\ ret.kind = "Ok"
    /\ cpu_cycles = 1
    /\ ret.snapshot.present /\ ret.snapshot.cpy_cycles = 1
    /\ ret.snapshot.program_counter = 65533

\* A build with overflow checks, 65530 calls after reset: the call has
\* panicked with the counter left at 65535.
C23_CounterPanics ==
    /\ overflow_checks
    /\ ret.op = "cycle" /\ ret.kind = "Panic"
    /\ ret.err = "attempt to add with overflow"
    /\ cpu_cycles = U16Max
    /\ program_counter = 65533
    /\ current_instruction_cycle = 2

\* The bus error that wraps cartridge error e.
BusCartridgeError(e) == "BusError::CartridgeError(" \o e \o ")"

\* C24: with an NROM cartridge, bus.write(a, v) for a in 0x4020..0xFFFF and
\* bus.read(a) for a in 0x4020..0x7FFF return a bus error that wraps the
\* error the cartridge gives for the same call; bus.read(a) for a in
\* 0x8000..0xFFFF returns the byte the cartridge returns; no RAM cell and
\* no byte of the ROM changes.
C24_CartridgeErrorsThroughBus ==
    [][(ret'.op \in {"bus_read", "bus_write"}
        /\ ret'.addr >= CARTRIDGE_CONTROLLED_REGION_START_ADDRESS)
       => /\ cpu_ram' = cpu_ram
          /\ cartridge' = cartridge
          /\ ret'.op = "bus_write" =>
               /\ ret'.kind = "Err"
               /\ NromWrite(cartridge, ret'.addr, ret'.value).res.kind = "Err"
               /\ ret'.err = BusCartridgeError(
                                NromWrite(cartridge, ret'.addr, ret'.value).res.err)
          /\ (ret'.op = "bus_read" /\ ret'.addr < NromPrgStart) =>
               /\ ret'.kind = "Err"
               /\ NromRead(cartridge, ret'.addr).kind = "Err"
               /\ ret'.err = BusCartridgeError(NromRead(cartridge, ret'.addr).err)
          /\ (ret'.op = "bus_read" /\ ret'.addr >= NromPrgStart) =>
               /\ ret'.kind = "Ok"
               /\ ret'.val = NromRead(cartridge, ret'.addr).val]_vars

\* A read of 0x7FFF, the last address below the ROM, made after a write to
\* RAM: the error of the cartridge comes back wrapped and the RAM cell
\* written before is as it was.
C24_Witness ==
    /\ ret.op = "bus_read" /\ ret.addr = 32767
    /\ ret.kind = "Err"
    /\ ret.err = "BusError::CartridgeError(CartridgeError::CannotRead)"
    /\ 2047 \in DOMAIN cpu_ram.written /\ RamByte(cpu_ram, 2047) = 255

\* A write to 0xFFFF: the error of the cartridge comes back wrapped.
C24_WriteWitness ==
    /\ ret.op = "bus_write" /\ ret.addr = 65535
    /\ ret.kind = "Err"
    /\ ret.err = "BusError::CartridgeError(CartridgeError::CannotWrite)"

\* Whether the condition of the branch last fetched held at its fetch: the
\* flag of the branch is set for BCS, BEQ, BVS, BMI and clear for the others.
ClaimedBranchTaken ==
    contains(last_snapshot.status, BranchTable[current_instruction][1])
        # BranchTable[current_instruction][2]

\* C25: when a branch fetched at p with operand d completes, the program
\* counter is p + 2 + d (d unsigned) if the branch was taken, page crossing
\* or not, and p + 2 if it was not; p + 2 + d is the address in the assembly
\* text of the fetch snapshot.
C25_BranchDestination ==
    [][(/\ ret'.op = "cycle" /\ ret'.kind = "Ok"
        /\ IsBranch(current_instruction)
        /\ current_instruction_cycle >= 2
        /\ current_instruction_cycle' = 1)
       => /\ program_counter' = IF ClaimedBranchTaken THEN ClaimedBranchTarget
                                ELSE (last_snapshot.program_counter + 2) % 65536
          /\ last_snapshot.instruction_data.arg_1 \in 0 .. 255
          /\ \E prefix \in {"BCS", "BCC", "BEQ", "BNE", "BVS", "BVC", "BMI", "BPL"} :
                last_snapshot.instruction_data.assembly
                    = prefix \o " $" \o FormatHex(ClaimedBranchTarget, 4)]_vars

\* BCC +$FE fetched at 0x8000 with the carry clear: the target 0x8100 is on
\* the next page, and the third call after the fetch has completed the
\* branch there.
C25_Witness ==
    /\ last_snapshot.present /\ last_snapshot.opcode = 144
    /\ last_snapshot.program_counter = 32768
    /\ last_snapshot.instruction_data.arg_1 = 254
    /\ last_snapshot.instruction_data.assembly = "BCC $8100"
    /\ ret.op = "cycle" /\ ret.kind = "Ok"
    /\ cpu_cycles = last_snapshot.cpy_cycles + 3
    /\ current_instruction_cycle = 1
    /\ program_counter = 33024

\* A branch not taken: BCS fetched at 0x8000 with the carry clear.
C25_NotTaken ==
    /\ last_snapshot.present /\ last_snapshot.opcode = 176
    /\ last_snapshot.program_counter = 32768
    /\ ret.op = "cycle" /\ ret.kind = "Ok"
    /\ cpu_cycles = last_snapshot.cpy_cycles + 1
    /\ current_instruction_cycle = 1
    /\ program_counter = 32770

\* The call that completes a JSR.
JsrCompletes ==
    /\ ret'.op = "cycle" /\ ret'.kind = "Ok"
    /\ current_instruction = "JumpToSubroutineAbsolute"
    /\ current_instruction_cycle = 6

\* The address built from the operand bytes the fetch snapshot reports.
JsrSnapshotTarget ==
    build_address(last_snapshot.instruction_data.arg_1,
                  last_snapshot.instruction_data.arg_2)

\* C26, as stated: wherever the JSR lies and whatever the stack pointer is,
\* the program counter when it completes is the address built from arg_1
\* and arg_2 of its fetch snapshot.
C26_JsrTargetAsStated ==
    [][JsrCompletes => program_counter' = JsrSnapshotTarget]_vars

\* C26, amended: the program counter when a JSR completes is built from
\* arg_1 of its fetch snapshot and the byte at p + 2 as the sixth call finds
\* it; that is the address built from arg_1 and arg_2 whenever the byte at
\* p + 2 is not one of the two RAM cells (mirrors included) the pushes wrote.
C26_JsrTarget ==
    [][JsrCompletes =>
         /\ program_counter = JsrReturnAddress
         /\ program_counter'
              = build_address(last_snapshot.instruction_data.arg_1, ByteAtOffset(0))
         /\ ~JsrOperandOnStack => program_counter' = JsrSnapshotTarget]_vars

\* JSR $8000 run from RAM at 0x01FB after reset: its third byte is the stack
\* cell 0x01FD, where the first push wrote 0x01; the snapshot reported
\* arg_2 = 0x80 and the JSR has ended at 0x0100.
C26_Witness ==
    /\ last_snapshot.present /\ last_snapshot.opcode = 32
    /\ last_snapshot.program_counter = 507
    /\ last_snapshot.stack_pointer = 253
    /\ last_snapshot.instruction_data.arg_1 = 0
    /\ last_snapshot.instruction_data.arg_2 = 128
    /\ ret.op = "cycle" /\ ret.kind = "Ok"
    /\ cpu_cycles = last_snapshot.cpy_cycles + 5
    /\ current_instruction_cycle = 1
    /\ program_counter = 256

\* JSR $77EE run from RAM at 0x1FFD, away from the stack: it has ended at
\* the address its snapshot reported.
C26_RamWitness ==
    /\ last_snapshot.present /\ last_snapshot.opcode = 32
    /\ last_snapshot.program_counter = 8189
    /\ ret.op = "cycle" /\ ret.kind = "Ok"
    /\ cpu_cycles = last_snapshot.cpy_cycles + 5
    /\ current_instruction_cycle = 1
    /\ program_counter = 30702

CarryInstructions == {"SetCarryFlagImplied", "ClearCarryFlagImplied"}

C27_SetWitness ==
    /\ last_snapshot.present /\ last_snapshot.opcode = 56
    /\ last_snapshot.program_counter = 32769
    /\ ~contains(last_snapshot.status, Carry)
    /\ ret.op = "cycle" /\ ret.kind = "Ok"
    /\ cpu_cycles = last_snapshot.cpy_cycles + 1
    /\ contains(status, Carry)

\* C28: the fetch snapshot of a NOP (0xEA) reports 1 idle cycle; the call
\* after the fetch completes it, with the program counter at p + 1, the
\* global cycle count 2 above what it was before the fetch, and the
\* accumulator, X, Y, status, stack pointer and RAM as the fetch found them.
C28_NopFrame ==
    /\ [][(ret'.op = "cycle" /\ ret'.snapshot.present /\ ret'.snapshot.opcode = 234)
          => /\ current_instruction' = "NoOperationImplied"
             /\ ret'.snapshot.instruction_data = InstructionData(-1, -1, "NOP", 1)
             /\ ret'.snapshot.cpy_cycles = (cpu_cycles + 1) % 65536
             /\ UNCHANGED <<accumulator, register_x, register_y, status, stack_pointer,
                            cpu_ram, cartridge>>]_vars
    /\ [][(/\ ret'.op = "cycle" /\ ret'.kind = "Ok"
           /\ current_instruction = "NoOperationImplied"
           /\ current_instruction_cycle >= 2)
          => /\ current_instruction_cycle = 2 /\ current_instruction_cycle' = 1
             /\ program_counter' = (last_snapshot.program_counter + 1) % 65536
             /\ cpu_cycles' = (last_snapshot.cpy_cycles + 1) % 65536
             /\ accumulator' = last_snapshot.accumulator
             /\ register_x' = last_snapshot.register_x
             /\ register_y' = last_snapshot.register_y
             /\ status' = last_snapshot.status
             /\ stack_pointer' = last_snapshot.stack_pointer
             /\ UNCHANGED <<cpu_ram, cartridge>>]_vars

\* NOP run after LDX #$80 from 0x8000: X and the Negative flag are in
\* place after it.
C28_Witness ==
    /\ last_snapshot.present /\ last_snapshot.opcode = 234
    /\ last_snapshot.program_counter = 32770
    /\ last_snapshot.instruction_data.idle_cycles = 1
    /\ ret.op = "cycle" /\ ret.kind = "Ok"
    /\ cpu_cycles = last_snapshot.cpy_cycles + 1
    /\ current_instruction_cycle = 1
    /\ program_counter = 32771
    /\ register_x = 128 /\ status = 152 /\ stack_pointer = 253

\* C29: bit 5 (the unused bit, Stub) of the status register is 1 in every
\* reachable state, and so is bit 5 of the status byte of every snapshot.
C29_UnusedBitSet ==
    /\ contains(status, Stub)
    /\ last_snapshot.present => contains(last_snapshot.status, Stub)

\* The first fetch after Cpu::new, at 0x8000: the snapshot reports the
\* status byte 0x18, and the register holds it, with bit 5 clear.
C29_UnusedBitClear ==
    /\ ret.op = "cycle" /\ ret.kind = "Ok"
    /\ ret.snapshot.present
    /\ ret.snapshot.program_counter = 32768
    /\ ret.snapshot.cpy_cycles = 7
    /\ ret.snapshot.status = 24
    /\ ~contains(ret.snapshot.status, Stub)
    /\ status = 24

\* C30: the cartridge the iNES parser builds has the 32 KiB capacity flag
\* set exactly when the image holds 2 units of 16 KiB; for such an image a
\* read of 0xC000 + i returns image byte 0x4000 + i.
C30_ParsedCapacityFlag ==
    /\ cartridge.has_32_kibibytes_prg_rom_capacity <=> cartridge.rom.prg_rom_size = 32768
    /\ cartridge.rom.prg_rom_size = 32768 =>
         /\ \A i \in CheckedOffsets :
              CartridgeRead(cartridge, 49152 + i) = Ok(PrgRomByte(cartridge.rom, 16384 + i))
         /\ (ret.op = "cart_read" /\ ret.addr >= 49152)
              => ret.val = PrgRomByte(cartridge.rom, ret.addr - 32768)

\* The same, for the images of 16 KiB.
C30_ParsedSixteenKibibytes ==
    cartridge.rom.prg_rom_size = 16384 =>
       /\ ~cartridge.has_32_kibibytes_prg_rom_capacity
       /\ \A i \in CheckedOffsets :
            /\ CartridgeRead(cartridge, 32768 + i) = Ok(PrgRomByte(cartridge.rom, i))
            /\ CartridgeRead(cartridge, 49152 + i) = Ok(PrgRomByte(cartridge.rom, i))

\* A parsed image of 32 KiB whose first bank holds 0x00 and second 0x01: the
\* cartridge has the flag false and the read of 0xC000 has returned 0x00,
\* byte 0 of the image, not byte 0x4000.
C30_SecondBankUnreachable ==
    /\ cartridge.rom.prg_rom_size = 32768
    /\ ~cartridge.has_32_kibibytes_prg_rom_capacity
    /\ PrgRomByte(cartridge.rom, 16384) = 1
    /\ ret.op = "cart_read" /\ ret.addr = 49152
    /\ ret.kind = "Ok" /\ ret.val = 0

\* The calls made since the fetch of the instruction in progress, the fetch
\* included.
CallsOfInstruction == ((cpu_cycles - last_snapshot.cpy_cycles) % 65536) + 1

\* A fetch has just returned its snapshot, with room in the run for the
\* five calls that may follow it.
FetchDone ==
    /\ ret.op = "cycle" /\ ret.kind = "Ok" /\ ret.snapshot.present
    /\ cpu_cycles + 5 <= 6 + MaxCycles

\* The instruction is complete, or a call has failed.
CompleteOrFailed ==
    \/ ret.kind # "Ok"
    \/ current_instruction_cycle = 1 /\ cache = <<>>

\* C31: the instruction cycle counter is always in 1..6; while the calls
\* return Ok an instruction in progress has had at most 5 calls, and a call
\* made with the counter at 6 completes it (counter back at 1, cache empty),
\* so an instruction takes at most 6 calls with its fetch; and every fetch
\* is followed, if the calls go on and none fails, by the completion.
C31_InstructionCompletion ==
    /\ [](/\ current_instruction_cycle \in 1 .. 6
          /\ (ret.op = "cycle" /\ ret.kind = "Ok" /\ last_snapshot.present)
             => /\ CallsOfInstruction <= 6
                /\ current_instruction_cycle >= 2
                   => CallsOfInstruction = current_instruction_cycle - 1)
    /\ [][(ret'.op = "cycle" /\ ret'.kind = "Ok" /\ current_instruction_cycle = 6)
          => (current_instruction_cycle' = 1 /\ cache' = <<>>)]_vars
    /\ (FetchDone ~> CompleteOrFailed)

\* A JSR complete on its sixth call, fetch included.
C31_Witness ==
    /\ ret.op = "cycle" /\ ret.kind = "Ok"
    /\ last_snapshot.present /\ last_snapshot.opcode = 32
    /\ last_snapshot.program_counter = 33021
    /\ CallsOfInstruction = 6
    /\ current_instruction_cycle = 1 /\ cache = <<>>

\* The handler of the current instruction has an arm for the cycle the
\* counter stands at.
CycleRecognised ==
    InstructionCycles(CpuRecord, overflow_checks).res # OutOfBounds(CpuRecord).res

\* A call returned the cycle-out-of-bounds error, as cycle() wraps it.
OutOfBoundsReturned ==
    /\ ret.op = "cycle"
    /\ ret.kind = "Err"
    /\ ret.err = MapErr(OutOfBounds(CpuRecord).res, "CpuError::InstructionError").err

\* C32: in every state reached from reset by cycle() calls, failing ones
\* included, a counter of 2 or more is a cycle the current instruction's
\* handler defines; the cycle-out-of-bounds error is never returned; and the
\* current instruction is the Stub only while the counter is 1.
C32_CycleIndexRecognised ==
    /\ current_instruction_cycle >= 2 => CycleRecognised
    /\ ~OutOfBoundsReturned
    /\ current_instruction = "Stub" => current_instruction_cycle = 1

\* A branch in its fourth cycle, the last one its handler defines.
C32_Witness ==
    /\ ret.op = "cycle" /\ ret.kind = "Ok"
    /\ IsBranch(current_instruction)
    /\ current_instruction_cycle = 4
    /\ CycleRecognised

\* A call that failed, with the counter left at 2 or more.
C32_FailedCallWitness ==
    /\ ret.op = "cycle" /\ ret.kind # "Ok"
    /\ current_instruction_cycle >= 2
    /\ CycleRecognised

\* The cycle() call of this step returns an error.
ErrorReturned == ret'.op = "cycle" /\ ret'.kind = "Err"

\* C33: a cycle() call that returns an error leaves the accumulator, X, Y,
\* the status, the stack pointer, the program counter, the RAM, the cache
\* and the instruction cycle counter as they were and advances the global
\* cycle count by one; the call after a failed one attempts the same cycle
\* again, and fails the same way.
C33_FailingCycleInPlace ==
    [][ErrorReturned
       => /\ accumulator' = accumulator
          /\ register_x' = register_x
          /\ register_y' = register_y
          /\ status' = status
          /\ stack_pointer' = stack_pointer
          /\ program_counter' = program_counter
          /\ cpu_ram' = cpu_ram
          /\ cache' = cache
          /\ current_instruction_cycle' = current_instruction_cycle
          /\ cpu_cycles' = (cpu_cycles + 1) % 65536
          /\ (ret.op = "cycle" /\ ret.kind = "Err") => ret'.err = ret.err]_vars

\* JMP $5533, then two calls that fetch at 0x5533, below the ROM: both
\* return the bus error, and the program counter has not moved.
C33_Witness ==
    /\ ret.op = "cycle" /\ ret.kind = "Err"
    /\ last_snapshot.present /\ last_snapshot.opcode = 76
    /\ program_counter = 21811
    /\ current_instruction_cycle = 1 /\ cache = <<>>
    /\ cpu_cycles >= last_snapshot.cpy_cycles + 4

\* C34: in every state reached from reset by cycle() calls the Zero and
\* Negative bits of the status are never both set.
C34_ZeroNegativeExclusive ==
    ~(contains(status, Zero) /\ contains(status, Negative))

\* LDX #$80 complete after an instruction fetched with Zero set: Negative
\* has taken the place of Zero.
C34_Witness ==
    /\ ret.op = "cycle" /\ ret.kind = "Ok"
    /\ last_snapshot.present /\ last_snapshot.opcode = 162
    /\ contains(last_snapshot.status, Zero)
    /\ current_instruction_cycle = 1
    /\ register_x = 128
    /\ contains(status, Negative) /\ ~contains(status, Zero)

\* Bytes Bus::new may have drawn for the RAM of a second Cpu.
TwinFills == {0, 234, 255}

\* The RAM of a second Cpu that has made the same writes over other initial
\* contents: every cell not written yet holds fill.
TwinRam(ram, fill) == [ram EXCEPT !.fill = fill, !.prog = <<>>]

\* A second Cpu like c in everything but the initial contents of its RAM.
Twin(c, fill) == [c EXCEPT !.cpu_ram = TwinRam(@, fill)]

\* Operand bytes the instruction data of an instruction is built from.
OperandCount(i) ==
    IF i \in {"JumpAbsolute", "JumpToSubroutineAbsolute"} THEN 2
    ELSE IF i \in {"LoadXRegisterImmediate", "StoreXRegisterZeroPage"} \/ IsBranch(i) THEN 1
    ELSE 0

\* The addresses the next cycle() call of c fetches an opcode or an operand
\* from: on a fetch the opcode and the operands of the instruction data, on
\* a later cycle the operand the handler takes at the program counter.
\* Reads whose value is dropped (dummy reads, the JSR's read of the stack
\* page) are not fetches.
FetchAddresses(c) ==
    IF c.current_instruction_cycle = 1
    THEN LET r == read_program_counter(c)
             n == IF r.kind = "Ok" /\ r.val \in DOMAIN OpcodeTable
                  THEN OperandCount(OpcodeTable[r.val]) ELSE 0
         IN  {(c.program_counter + k) % 65536 : k \in 0 .. n}
    ELSE LET i == c.current_instruction
             n == c.current_instruction_cycle
         IN  IF \/ i = "JumpAbsolute" /\ n \in {2, 3}
                \/ i = "JumpToSubroutineAbsolute" /\ n \in {2, 6}
                \/ i \in {"LoadXRegisterImmediate", "StoreXRegisterZeroPage"} /\ n = 2
                \/ IsBranch(i) /\ n = 2
             THEN {c.program_counter}
             ELSE {}

FetchesInCartridge(c) == \A a \in FetchAddresses(c) : BusRegion(a) = "Cartridge"

\* c2 is c1 over a RAM that began with fill: every field but the RAM is the
\* same, and the RAMs hold the same written cells.
SameButInitialRam(c1, c2, fill) ==
    /\ c2.accumulator = c1.accumulator
    /\ c2.register_x = c1.register_x
    /\ c2.register_y = c1.register_y
    /\ c2.status = c1.status
    /\ c2.stack_pointer = c1.stack_pointer
    /\ c2.program_counter = c1.program_counter
    /\ c2.current_instruction = c1.current_instruction
    /\ c2.current_instruction_cycle = c1.current_instruction_cycle
    /\ c2.cache = c1.cache
    /\ c2.cpu_cycles = c1.cpu_cycles
    /\ c2.cartridge = c1.cartridge
    /\ c2.cpu_ram = TwinRam(c1.cpu_ram, fill)

\* C35: two CPUs over the same cartridge that agree on every field and
\* differ only in the RAM cells neither has written still agree in that way
\* after a cycle() call, and the call returns the same result and snapshot
\* to both, when the addresses it fetches its opcode and operands from are in
\* the cartridge region.  With the same initial program counter the two
\* agree at reset, so they agree after every call of such a run.
C35_InitialRamIndependence ==
    \A fill \in TwinFills :
        FetchesInCartridge(CpuRecord)
        => \A o1 \in {cycle(CpuRecord, overflow_checks)},
              o2 \in {cycle(Twin(CpuRecord, fill), overflow_checks)} :
                /\ o2.res = o1.res
                /\ o2.snapshot = o1.snapshot
                /\ SameButInitialRam(o1.c, o2.c, fill)

\* A JSR from the cartridge about to make its third call, which reads the
\* stack page, where the two RAMs hold different bytes.
C35_Witness ==
    /\ ret.op = "cycle" /\ ret.kind = "Ok"
    /\ current_instruction = "JumpToSubroutineAbsolute"
    /\ current_instruction_cycle = 3
    /\ BusRegion(last_snapshot.program_counter) = "Cartridge"
    /\ FetchesInCartridge(CpuRecord)
    /\ \E fill \in TwinFills :
          CpuBusRead(Twin(CpuRecord, fill), 256) # CpuBusRead(CpuRecord, 256)

\* A NOP fetched at 0xFFFF in a release build: its dummy read is at
\* address 0, in the RAM, and its value is dropped.
C35_DummyReadInRam ==
    /\ ret.op = "cycle" /\ ret.kind = "Ok"
    /\ current_instruction = "NoOperationImplied"
    /\ current_instruction_cycle = 2
    /\ program_counter = 0
    /\ FetchesInCartridge(CpuRecord)

\* The Cpu has been constructed and no call has been made on it.
JustConstructed == ret = NoRet

C36_OtherProgramCounter == JustConstructed /\ ~new /\ program_counter = 65533

\* Every RAM cell but `except` holds after the step what it held before: the
\* cells never written hold what Bus::new drew, the others are compared one
\* by one.
RamCellsStand(except) ==
    /\ cpu_ram'.fill = cpu_ram.fill
    /\ cpu_ram'.at = cpu_ram.at
    /\ cpu_ram'.prog = cpu_ram.prog
    /\ \A i \in ((DOMAIN cpu_ram.written) \cup (DOMAIN cpu_ram'.written)) \ except :
          RamByte(cpu_ram', i) = RamByte(cpu_ram, i)

\* bus.read(b) gives after the step what it gave before.
ReadStands(b) ==
    BusRead(cpu_ram', cartridge', b).res = BusRead(cpu_ram, cartridge, b).res

\* C37: bus.read changes no RAM cell and no cartridge byte; a successful
\* bus.write(a, v) with a in 0x0000..0x1FFF changes the RAM cell a mod 2048
\* and no other, and leaves the cartridge alone, so that bus.read(b) gives
\* what it gave before for every b in 0x0000..0x1FFF with b mod 2048
\* different from a mod 2048 and for every b in the cartridge region.
C37_BusFrame ==
    [][/\ ret'.op = "bus_read"
          => /\ RamCellsStand({})
             /\ cartridge' = cartridge
       /\ (ret'.op = "bus_write" /\ ret'.kind = "Ok"
           /\ ret'.addr <= CPU_RAM_WITH_MIRRORING_END_ADDRESS)
          => /\ RamCellsStand({MaskAddress(ret'.addr)})
             /\ RamByte(cpu_ram', MaskAddress(ret'.addr)) = ret'.value
             /\ cartridge' = cartridge
             /\ \A b \in ProbeAddresses :
                   (\/ BusRegion(b) = "Cartridge"
                    \/ /\ BusRegion(b) = "CpuRam"
                       /\ MaskAddress(b) # MaskAddress(ret'.addr))
                   => ReadStands(b)]_vars

\* A write through the last mirror to the cell 2047 of a RAM whose cell 0
\* was written before with another byte, and still holds it.
C37_Witness ==
    /\ ret.op = "bus_write" /\ ret.kind = "Ok"
    /\ ret.addr = 8191 /\ ret.value = 255
    /\ RamByte(cpu_ram, 2047) = 255
    /\ 0 \in DOMAIN cpu_ram.written
    /\ RamByte(cpu_ram, 0) = 0
    /\ cpu_ram.fill = 234

\* A read made after a write: the written cell is still there.
C37_ReadWitness ==
    /\ ret.op = "bus_read" /\ ret.kind = "Ok"
    /\ ret.addr = 2048
    /\ 0 \in DOMAIN cpu_ram.written
    /\ ret.val = RamByte(cpu_ram, 0)
    /\ ret.val # cpu_ram.fill

\* The ROM is an iNES image exactly as long as the capacity the cartridge
\* declares: 16 KiB without the flag, 32 KiB with it.
RomLengthIsCapacity(cart) ==
    /\ cart.rom.kind = "InesFile"
    /\ cart.rom.prg_rom_size = IF cart.has_32_kibibytes_prg_rom_capacity
                               THEN 32 * BYTES_ON_A_KIBIBYTE
                               ELSE 16 * BYTES_ON_A_KIBIBYTE

\* The index the claim gives for address a.
ClaimedNromIndex(cart, a) ==
    IF cart.has_32_kibibytes_prg_rom_capacity THEN a - 32768 ELSE (a - 32768) % 16384

\* C38: for an NROM cartridge whose ROM is as long as its declared capacity,
\* cartridge.read(a) with a in 0x8000..0xFFFF reads the ROM at a - 0x8000
\* with the flag and at (a - 0x8000) mod 16384 without it, an index in
\* 0..length-1, so the read returns the byte there and never indexes past
\* the end of the ROM.
C38_NromIndexInsideRom ==
    RomLengthIsCapacity(cartridge)
    => /\ \A a \in CheckedAddresses :
            a >= NromPrgStart
            => /\ NromIndex(cartridge, a) = ClaimedNromIndex(cartridge, a)
               /\ NromIndex(cartridge, a) \in 0 .. (cartridge.rom.prg_rom_size - 1)
               /\ CartridgeRead(cartridge, a)
                    = Ok(PrgRomByte(cartridge.rom, ClaimedNromIndex(cartridge, a)))
       /\ (ret.op = "cart_read" /\ ret.addr >= NromPrgStart) => ret.kind = "Ok"

\* A read of the last address from a 32 KiB cartridge: the last ROM byte.
C38_Witness ==
    /\ RomLengthIsCapacity(cartridge)
    /\ cartridge.has_32_kibibytes_prg_rom_capacity
    /\ ret.op = "cart_read" /\ ret.addr = 65535 /\ ret.kind = "Ok"
    /\ NromIndex(cartridge, ret.addr) = cartridge.rom.prg_rom_size - 1

\* A read of the last address from a 16 KiB cartridge: the mirror of the
\* last ROM byte.
C38_MirrorWitness ==
    /\ RomLengthIsCapacity(cartridge)
    /\ ~cartridge.has_32_kibibytes_prg_rom_capacity
    /\ ret.op = "cart_read" /\ ret.addr = 65535 /\ ret.kind = "Ok"
    /\ NromIndex(cartridge, ret.addr) = 16383

----------------------------------------------------------------------------
(* lib.rs: build_address, get_lower_byte, get_upper_byte over all bytes    *)
(* and all addresses.                                                      *)

\* Either two bytes wait in the cache to be made into an address, as the
\* operands of a JMP or a JSR do, or the program counter holds an address
\* to be split, as it does before the pushes of a JSR.
InitAddress ==
    /\ \/ /\ cache \in {<<lo, hi>> : lo \in 0 .. 255, hi \in 0 .. 255}
          /\ program_counter = 0
       \/ /\ cache = <<>>
          /\ program_counter \in 0 .. U16Max
    /\ accumulator = 0
    /\ register_x = 0
    /\ register_y = 0
    /\ status = ResetStatus
    /\ stack_pointer = 253
    /\ current_instruction = "Stub"
    /\ current_instruction_cycle = 1
    /\ cpu_cycles = 6
    /\ last_snapshot = NoSnapshot
    /\ cpu_ram = RamImage(0, 0, <<>>)
    /\ cartridge = NromNew(FALSE, MockRom)
    /\ overflow_checks = TRUE
    /\ ret = NoRet

\* program_counter = build_address(cache[0], cache[1])
BuildAddressCall ==
    /\ Len(cache) = 2
    /\ \E a \in {build_address(cache[1], cache[2])} :
          /\ program_counter' = a
          /\ ret' = Ret("build_address", cache[1], cache[2], Ok(a), <<>>, NoSnapshot)
    /\ UNCHANGED <<cartridge, cpu_ram, accumulator, register_x, register_y, status,
                   stack_pointer, current_instruction, current_instruction_cycle,
                   cache, cpu_cycles, overflow_checks, last_snapshot>>

\* cache = [program_counter.get_lower_byte(), program_counter.get_upper_byte()]
GetBytesCall ==
    /\ cache' = <<lower_byte(program_counter), upper_byte(program_counter)>>
    /\ ret' = Ret("get_bytes", program_counter, -1, Ok(-1), <<>>, NoSnapshot)
    /\ UNCHANGED <<cartridge, cpu_ram, accumulator, register_x, register_y, status,
                   stack_pointer, program_counter, current_instruction,
                   current_instruction_cycle, cpu_cycles, overflow_checks,
                   last_snapshot>>

NextAddress == BuildAddressCall \/ GetBytesCall

SpecAddress == InitAddress /\ [][NextAddress]_vars

\* C39: for all bytes lo and hi, build_address(lo, hi) is lo + 256 * hi and
\* its lower and upper bytes are lo and hi; for every 16-bit address a, the
\* address built from the lower and the upper byte of a is a.
C39_AddressRoundTrip ==
    /\ ret.op = "build_address"
       => /\ ret.val = ret.addr + 256 * ret.value
          /\ lower_byte(ret.val) = ret.addr
          /\ upper_byte(ret.val) = ret.value
    /\ ret.op = "get_bytes"
       => /\ cache[1] \in 0 .. 255
          /\ cache[2] \in 0 .. 255
          /\ build_address(cache[1], cache[2]) = ret.addr

\* 0xAB and 0xDC made into 0xDCAB, the case of the tests of lib.rs.
C39_Witness ==
    /\ ret.op = "build_address"
    /\ ret.addr = 171 /\ ret.value = 220
    /\ ret.val = 56491

\* 0xFF00 split into 0x00 and 0xFF.
C39_SplitWitness ==
    /\ ret.op = "get_bytes"
    /\ ret.addr = 65280
    /\ cache = <<0, 255>>

===========================================================================
